---------------------------- MODULE Spec2Model ----------------------------
(***************************************************************************)
(* bibliophile: which books of a reader's shelf are available at a library *)
(* branch.  The module models the catalog side of the repository:          *)
(*   - QueryBuilder (single_query, bibliocommons_query) and grouper,       *)
(*   - BiblioParser (extract_item_id, async_record, book_from_rss_item,    *)
(*     matching_books, get_call_number, catalog_results, __iter__),        *)
(* all of src/bibliophile/bibliocommons.py, and the function that reads a  *)
(* shelf through its cache:                                                *)
(*   - handler and get_wanted_books of src/lambda_functions/read_shelf.py, *)
(*     with ShelfReader.__init__ of src/bibliophile/goodreads.py.          *)
(*                                                                         *)
(* Python strings are TLA+ strings and are built, cut and measured as the  *)
(* code does it.  Python's None is the value None below.  A call that may  *)
(* raise returns a record [ok, val, exc].  A function's local variable     *)
(* that is read several times is the parameter of a helper operator, which *)
(* takes the function from there on.                                       *)
(***************************************************************************)
EXTENDS Integers, Sequences, FiniteSets, TLC

(***************************************************************************)
(* Python values and string primitives                                     *)
(***************************************************************************)

\* Python's None: a value no string of the model is equal to.
None == "\\None"

\* bool(x) of a str-or-None: None and '' are falsy.
Truthy(x) == x # None /\ x # ""

Ok(v) == [ok |-> TRUE, val |-> v, exc |-> "none"]

Raise(e) == [ok |-> FALSE, val |-> None, exc |-> e]

Min(S) == CHOOSE x \in S : \A y \in S : x <= y

Max(S) == CHOOSE x \in S : \A y \in S : x >= y

\* s[i] of a str, 1-based.
CharAt(s, i) == SubSeq(s, i, i)

\* s[i:] of a str, 1-based.
From(s, i) == SubSeq(s, i, Len(s))

\* str.startswith
StartsWith(s, p) == Len(s) >= Len(p) /\ SubSeq(s, 1, Len(p)) = p

\* The first position of s holding one of the characters of cs, or 0.
FirstOf(s, cs) ==
    LET hits == {i \in 1..Len(s) : CharAt(s, i) \in cs}
    IN  IF hits = {} THEN 0 ELSE Min(hits)

\* The last position of s holding one of the characters of cs, or 0.
LastOf(s, cs) ==
    LET hits == {i \in 1..Len(s) : CharAt(s, i) \in cs}
    IN  IF hits = {} THEN 0 ELSE Max(hits)

\* str.split(c)[0]: the part before the first c, all of s when it has none.
SplitFirst(s, c) ==
    LET k == FirstOf(s, {c})
    IN  IF k = 0 THEN s ELSE SubSeq(s, 1, k - 1)

\* str.split(c)[-1]: the part after the last c, all of s when it has none.
SplitLast(s, c) ==
    LET k == LastOf(s, {c})
    IN  IF k = 0 THEN s ELSE From(s, k + 1)

Whitespace == {" ", "\t", "\n", "\r"}

\* str.strip()
Strip(s) ==
    LET keep == {i \in 1..Len(s) : CharAt(s, i) \notin Whitespace}
    IN  IF keep = {} THEN "" ELSE SubSeq(s, Min(keep), Max(keep))

Digits == {"0", "1", "2", "3", "4", "5", "6", "7", "8", "9"}

\* Non-empty and of the decimal digits 0-9 only: what int() takes, among the
\* strings of the model.
IsDecimal(s) == Len(s) > 0 /\ \A i \in 1..Len(s) : CharAt(s, i) \in Digits

\* The characters str.isdigit() holds for: the decimal digits and, among
\* others, the superscript digits, which int() does not take.
DigitChars == Digits \cup {"²"}

\* str.isdigit(): non-empty, digit characters only.
IsDigit(s) == Len(s) > 0 /\ \A i \in 1..Len(s) : CharAt(s, i) \in DigitChars

\* int(s) of a digit string, as the decimal numeral str() prints for it:
\* Python's integers are unbounded, so the numeral stands for the number.
IntOf(s) ==
    LET nz == {i \in 1..Len(s) : CharAt(s, i) # "0"}
    IN  IF nz = {} THEN "0" ELSE From(s, Min(nz))

\* sep.join(parts)
RECURSIVE Join(_, _)
Join(sep, parts) ==
    IF parts = <<>> THEN ""
    ELSE IF Len(parts) = 1 THEN parts[1]
    ELSE parts[1] \o sep \o Join(sep, Tail(parts))

\* [f(x) for x in xs]
Map(F(_), xs) == [i \in 1..Len(xs) |-> F(xs[i])]

\* n copies of x, as a list.
Rep(x, n) == [i \in 1..n |-> x]

(***************************************************************************)
(* grouper and QueryBuilder                                                *)
(***************************************************************************)

\* len(query) > 900 is refused (bibliocommons_query).
MaxQueryLen == 900

\* grouper(self.books, 10) (catalog_results).
ChunkSize == 10

\* grouper: range(0, len(input_list), chunk_size) gives the starts 0, c, 2c,
\* ... below the length, and each window is the slice [i : i + c].
grouper(input_list, chunk_size) ==
    LET n == Len(input_list)
        count == (n + chunk_size - 1) \div chunk_size
    IN  [k \in 1..count |->
            SubSeq(input_list, (k - 1) * chunk_size + 1,
                   IF k * chunk_size < n THEN k * chunk_size ELSE n)]

\* A variant for comparison: the title and the author asked for whether or
\* not the book has an ISBN.
Conditions_always(book, print_only) ==
    (IF Truthy(book.isbn) THEN << <<"identifier", book.isbn>> >> ELSE <<>>)
    \o << <<"contributor", book.author>>, <<"title", book.title>> >>
    \o (IF print_only THEN << <<"formatcode", "BK">> >> ELSE <<>>)

\* The conditions dict of single_query, in insertion order.
Conditions(book, print_only) ==
    IF Truthy(book.isbn)
    THEN << <<"identifier", book.isbn>> >>
    ELSE << <<"contributor", book.author>>, <<"title", book.title>> >>
         \o (IF print_only THEN << <<"formatcode", "BK">> >> ELSE <<>>)

\* f'{name}:({val})'
Rule(cond) == cond[1] \o ":(" \o cond[2] \o ")"

single_query(book, print_only) ==
    LET rules == Map(Rule, Conditions(book, print_only))
        query == Join(" AND ", rules)
    IN  IF Len(rules) > 1 THEN "(" \o query \o ")" ELSE query

\* single_query(book): print_only takes its default, True.
SingleQueryDefault(book) == single_query(book, TRUE)

\* A variant for comparison: the branch asked for whether or not one is
\* given.
RawQuery_always(books, branch) ==
    "(" \o Join(" OR ", Map(SingleQueryDefault, books))
        \o ") available:\"" \o branch \o "\""

\* The string bibliocommons_query builds before it checks its length.
RawQuery(books, branch) ==
    LET isbn_match == Join(" OR ", Map(SingleQueryDefault, books))
    IN  IF Truthy(branch)
        THEN "(" \o isbn_match \o ") available:\"" \o branch \o "\""
        ELSE isbn_match

\* A variant for comparison: the limit taken as exclusive.
QueryTooLarge_inclusive(query) == Len(query) >= MaxQueryLen

\* if len(query) > 900: raise ValueError(...)
QueryTooLarge(query) == Len(query) > MaxQueryLen

bibliocommons_query(books, branch) ==
    LET query == RawQuery(books, branch)
    IN  IF QueryTooLarge(query) THEN Raise("ValueError") ELSE Ok(query)


(***************************************************************************)
(* urllib.parse, as far as the code uses it                                *)
(***************************************************************************)

Letters ==
    {"a", "b", "c", "d", "e", "f", "g", "h", "i", "j", "k", "l", "m",
     "n", "o", "p", "q", "r", "s", "t", "u", "v", "w", "x", "y", "z",
     "A", "B", "C", "D", "E", "F", "G", "H", "I", "J", "K", "L", "M",
     "N", "O", "P", "Q", "R", "S", "T", "U", "V", "W", "X", "Y", "Z"}

SchemeChars == Letters \cup Digits \cup {"+", "-", "."}

\* urlsplit: whether the ':' at i ends a scheme: only scheme characters
\* precede it, and what follows is not a bare port number.
EndsScheme(url, i) ==
    /\ i > 1
    /\ \A k \in 1..(i - 1) : CharAt(url, k) \in SchemeChars
    /\ (SubSeq(url, 1, i - 1) = "http" \/ ~IsDecimal(From(url, i + 1)))

\* urlsplit, last step: the query is what follows the first '?' at q.
SplitQuery(scheme, netloc, url, fragment, q) ==
    [scheme |-> scheme, netloc |-> netloc,
     path |-> IF q = 0 THEN url ELSE SubSeq(url, 1, q - 1),
     query |-> IF q = 0 THEN "" ELSE From(url, q + 1),
     fragment |-> fragment]

\* urlsplit: the fragment is what follows the first '#' at h.
SplitFragment(scheme, netloc, url, h) ==
    IF h = 0
    THEN SplitQuery(scheme, netloc, url, "", FirstOf(url, {"?"}))
    ELSE SplitQuery(scheme, netloc, SubSeq(url, 1, h - 1), From(url, h + 1),
                    FirstOf(SubSeq(url, 1, h - 1), {"?"}))

\* urlsplit, _splitnetloc: after '//' the netloc runs to the first of '/?#',
\* found at d.
SplitNetloc(scheme, url, d) ==
    IF d = 0
    THEN SplitFragment(scheme, url, "", 0)
    ELSE SplitFragment(scheme, SubSeq(url, 1, d - 1), From(url, d),
                       FirstOf(From(url, d), {"#"}))

\* urlsplit: url is what follows the scheme.
SplitRest(scheme, url) ==
    IF StartsWith(url, "//")
    THEN SplitNetloc(scheme, From(url, 3), FirstOf(From(url, 3), {"/", "?", "#"}))
    ELSE SplitFragment(scheme, "", url, FirstOf(url, {"#"}))

\* urlsplit: i is the place of the first ':'.
SplitScheme(url, i) ==
    IF EndsScheme(url, i)
    THEN SplitRest(SubSeq(url, 1, i - 1), From(url, i + 1))
    ELSE SplitRest("", url)

\* urlsplit / urlparse: [scheme, netloc, path, query, fragment]
urlsplit(url) == SplitScheme(url, FirstOf(url, {":"}))

\* urlunsplit / ParseResult.geturl()
geturl(parts) ==
    (IF parts.scheme # "" THEN parts.scheme \o ":" ELSE "")
    \o (IF parts.netloc # "" THEN "//" \o parts.netloc ELSE "")
    \o parts.path
    \o (IF parts.query # "" THEN "?" \o parts.query ELSE "")
    \o (IF parts.fragment # "" THEN "#" \o parts.fragment ELSE "")

\* str.split(c)
RECURSIVE Split(_, _)
Split(s, c) ==
    IF FirstOf(s, {c}) = 0 THEN <<s>>
    ELSE <<SplitFirst(s, c)>> \o Split(From(s, FirstOf(s, {c}) + 1), c)

\* Characters quote_plus leaves alone.
SafeChars == Letters \cup Digits \cup {"_", ".", "-", "~"}

\* quote_plus of one character of the model's URLs.
QuoteChar(c) ==
    IF c \in SafeChars THEN c
    ELSE IF c = " " THEN "+"
    ELSE IF c = "/" THEN "%2F"
    ELSE IF c = ":" THEN "%3A"
    ELSE IF c = "=" THEN "%3D"
    ELSE IF c = "&" THEN "%26"
    ELSE IF c = "?" THEN "%3F"
    ELSE "%25"

RECURSIVE quote_plus(_)
quote_plus(s) ==
    IF s = "" THEN "" ELSE QuoteChar(CharAt(s, 1)) \o quote_plus(From(s, 2))

\* The character of a percent escape, of those quote_plus writes.
Unescape(e) ==
    CASE e = "%2F" -> "/"
      [] e = "%3A" -> ":"
      [] e = "%3D" -> "="
      [] e = "%26" -> "&"
      [] e = "%3F" -> "?"
      [] e = "%25" -> "%"
      [] OTHER -> e

\* unquote(s.replace('+', ' ')) on the model's URLs, whose percent escapes
\* are those quote_plus writes.
RECURSIVE unquote_plus(_)
unquote_plus(s) ==
    IF s = "" THEN ""
    ELSE IF CharAt(s, 1) = "%" /\ Len(s) >= 3 /\ Unescape(SubSeq(s, 1, 3)) # SubSeq(s, 1, 3)
    THEN Unescape(SubSeq(s, 1, 3)) \o unquote_plus(From(s, 4))
    ELSE (IF CharAt(s, 1) = "+" THEN " " ELSE CharAt(s, 1))
         \o unquote_plus(From(s, 2))

\* parse_qs keeps a field that has an '=' and a value after it
\* (keep_blank_values=False).
IsField(f) == FirstOf(f, {"="}) > 0 /\ Len(f) > FirstOf(f, {"="})

FieldName(f) == unquote_plus(SplitFirst(f, "="))

FieldValue(f) == unquote_plus(From(f, FirstOf(f, {"="}) + 1))

\* The values of every field of the name of field i, in order.
ValuesLike(fields, i) ==
    Map(FieldValue,
        SelectSeq(fields, LAMBDA f : FieldName(f) = FieldName(fields[i])))

\* The positions of the fields whose name appears there first.
FirstFields(fields) ==
    SelectSeq([i \in 1..Len(fields) |-> i],
              LAMBDA i : \A j \in 1..(i - 1) :
                            FieldName(fields[j]) # FieldName(fields[i]))

\* The dict parse_qs returns, as (name, [values]) in insertion order.
GroupFields(fields, firsts) ==
    [k \in 1..Len(firsts) |->
        [name |-> FieldName(fields[firsts[k]]),
         values |-> ValuesLike(fields, firsts[k])]]

QsFields(query) == SelectSeq(Split(query, "&"), IsField)

parse_qs(query) == GroupFields(QsFields(query), FirstFields(QsFields(query)))

\* urlencode(params, doseq=True)
EncodeParam(p) ==
    Join("&", [i \in 1..Len(p.values) |->
                  quote_plus(p.name) \o "=" \o quote_plus(p.values[i])])

urlencode(params) == Join("&", Map(EncodeParam, params))

(***************************************************************************)
(* syndetics.higher_quality_cover                                          *)
(***************************************************************************)

\* The place of 'isbn' in params, or 0.
IsbnAt(params) ==
    IF \A i \in 1..Len(params) : params[i].name # "isbn" THEN 0
    ELSE Min({i \in 1..Len(params) : params[i].name = "isbn"})

\* isbn, filename = params['isbn'][0].split('/'), and the rest.
LargeCover(parsed, params, i, pieces) ==
    IF Len(pieces) # 2 THEN Raise("ValueError")
    ELSE Ok(geturl([parsed EXCEPT !.query =
                       urlencode([params EXCEPT ![i].values =
                                     <<pieces[1] \o "/LC.jpg">>])]))

\* if 'isbn' not in params: return image_url
CoverFromParams(image_url, parsed, params, i) ==
    IF i = 0 THEN Ok(image_url)
    ELSE LargeCover(parsed, params, i, Split(params[i].values[1], "/"))

CoverFromParsed(image_url, parsed) ==
    CoverFromParams(image_url, parsed, parse_qs(parsed.query),
                    IsbnAt(parse_qs(parsed.query)))

higher_quality_cover(image_url) == CoverFromParsed(image_url, urlsplit(image_url))

(***************************************************************************)
(* The documents the parser reads                                          *)
(*                                                                         *)
(* A search response is an RSS document: a channel holding items, each     *)
(* with a title, a link and a description element, any of which can be     *)
(* missing.  The description is escaped HTML, modelled by its nodes in     *)
(* document order (all siblings): a node has a name ("#text" for a string),*)
(* its text, its class and, for a div, the src of the img it holds (None:  *)
(* it holds no img).  A full record is a JSON object whose 'html' field is *)
(* an HTML fragment: its nodes, each with its testid attribute and the     *)
(* spans it holds.                                                         *)
(***************************************************************************)

Node(name, text, cls, img) == [name |-> name, text |-> text, cls |-> cls, img |-> img]

Text(t) == Node("#text", t, "", None)

Tag(name, t) == Node(name, t, "", None)

\* html.unescape, for the named references the model's titles use.
Entities ==
    << <<"&amp;", "&">>, <<"&lt;", "<">>, <<"&gt;", ">">>,
       <<"&quot;", "\"">>, <<"&#39;", "'">> >>

RECURSIVE unescape(_)
unescape(s) ==
    IF s = "" THEN ""
    ELSE LET hit == {i \in 1..Len(Entities) : StartsWith(s, Entities[i][1])}
         IN  IF hit = {} THEN CharAt(s, 1) \o unescape(From(s, 2))
             ELSE Entities[Min(hit)][2]
                  \o unescape(From(s, Len(Entities[Min(hit)][1]) + 1))

\* soup.find(name, text=text): the position of the first such node, or 0.
FindLabel(nodes, name, text) ==
    LET hits == {i \in 1..Len(nodes) :
                    nodes[i].name = name /\ nodes[i].text = text}
    IN  IF hits = {} THEN 0 ELSE Min(hits)

\* tag.find_next(name): the position of the first such node after i, or 0.
FindNext(nodes, i, name) ==
    LET hits == {j \in (i + 1)..Len(nodes) : nodes[j].name = name}
    IN  IF hits = {} THEN 0 ELSE Min(hits)

\* soup.find('div', class_=cls): the position of the first such div, or 0.
FindDiv(nodes, cls) ==
    LET hits == {i \in 1..Len(nodes) :
                    nodes[i].name = "div" /\ nodes[i].cls = cls}
    IN  IF hits = {} THEN 0 ELSE Min(hits)

\* rss_item.<name>.text: the element's text; a missing element is None in
\* BeautifulSoup, and None has no attribute 'text'.
ElementText(rss_item, name) ==
    IF name \in rss_item.missing THEN Raise("AttributeError")
    ELSE Ok(rss_item[name])

(***************************************************************************)
(* BiblioParser: the pure parts                                            *)
(***************************************************************************)

\* Book = namedtuple('Book', [...])
Book(title, author, description, call_number, cover_image, full_record_link) ==
    [title |-> title, author |-> author, description |-> description,
     call_number |-> call_number, cover_image |-> cover_image,
     full_record_link |-> full_record_link]

\* book.call_number = value.  Book is a namedtuple: its fields are read-only
\* properties, and assigning one raises AttributeError.
SetCallNumber(book, value) == Raise("AttributeError")

\* self.root, with biblio_subdomain at its default.
Root == "https://seattle.bibliocommons.com/"

\* extract_item_id, from item_id = slug.split('_')[0] on.
ItemIdFrom(item_id) ==
    IF ~IsDigit(item_id) THEN Raise("UnstableAPIError")
    ELSE IF ~IsDecimal(item_id) THEN Raise("ValueError")
    ELSE Ok(IntOf(item_id))

\* extract_item_id, from path = urlsplit(rss_link).path on.
ItemIdFromPath(path) ==
    IF ~StartsWith(path, "/item/show/") THEN Raise("UnstableAPIError")
    ELSE ItemIdFrom(SplitFirst(SplitLast(path, "/"), "_"))

extract_item_id(rss_link) == ItemIdFromPath(urlsplit(rss_link).path)

\* async_record, from item_id on: the request, not yet sent, with the book
\* its response hook will attach.  urljoin(root, 'item/full_record/<id>')
\* appends to the root, which ends in '/'.
RecordRequest(book, item_id) ==
    IF ~item_id.ok THEN item_id
    ELSE Ok([url |-> Root \o "item/full_record/" \o item_id.val, book |-> book])

async_record(book) == RecordRequest(book, extract_item_id(book.full_record_link))

\* call_num.next_sibling.strip() if call_num else None, the label being at i
\* (0: not found).  The last node has no next sibling (None), and a tag has
\* no strip method.
CallNumberAt(desc, i) ==
    IF i = 0 THEN Ok(None)
    ELSE IF i = Len(desc) THEN Raise("AttributeError")
    ELSE IF desc[i + 1].name # "#text" THEN Raise("TypeError")
    ELSE Ok(Strip(desc[i + 1].text))

CallNumberOf(desc) == CallNumberAt(desc, FindLabel(desc, "b", "Call #:"))

\* label.find_next(name).text if label else default, the label being at i.
TextAfter(desc, i, name, default) ==
    IF i = 0 THEN Ok(default)
    ELSE IF FindNext(desc, i, name) = 0 THEN Raise("AttributeError")
    ELSE Ok(desc[FindNext(desc, i, name)].text)

\* author_label.find_next('a').text if author_label else None
AuthorOf(desc) == TextAfter(desc, FindLabel(desc, "b", "Author:"), "a", None)

\* desc_label.find_next('p').text if desc_label else ''
DescriptionOf(desc) == TextAfter(desc, FindLabel(desc, "b", "Description:"), "p", "")

\* The cover: higher_quality_cover of the src of the thumbnail's img, the
\* thumbnail being at i; None without a thumbnail.
CoverAt(desc, i) ==
    IF i = 0 THEN Ok(None)
    ELSE IF desc[i].img = None THEN Raise("AttributeError")
    ELSE higher_quality_cover(desc[i].img)

CoverOf(desc) == CoverAt(desc, FindDiv(desc, "jacketCoverDiv"))

\* book_from_rss_item, its statements raising in the order they are written.
BookFrom(call_number, author, description, cover_image, link, title) ==
    IF ~call_number.ok THEN call_number
    ELSE IF ~author.ok THEN author
    ELSE IF ~description.ok THEN description
    ELSE IF ~cover_image.ok THEN cover_image
    ELSE IF ~link.ok THEN link
    ELSE IF ~title.ok THEN title
    ELSE Ok(Book(unescape(title.val), author.val, description.val,
                 call_number.val, cover_image.val, link.val))

\* book_from_rss_item, from desc_soup on.
BookFromSoup(rss_item, desc) ==
    IF ~desc.ok THEN desc
    ELSE BookFrom(CallNumberOf(desc.val), AuthorOf(desc.val),
                  DescriptionOf(desc.val), CoverOf(desc.val),
                  ElementText(rss_item, "link"), ElementText(rss_item, "title"))

book_from_rss_item(rss_item) ==
    BookFromSoup(rss_item, ElementText(rss_item, "description"))

\* A variant for comparison: a document with no channel read as one with no
\* items.
matching_books_lenient(query_response) ==
    Ok(IF query_response.channel THEN query_response.items ELSE 0)

\* matching_books: soup.find('channel').findAll('item'), of which the model
\* keeps the number; a document with no channel makes find return None.
matching_books(query_response) ==
    IF ~query_response.channel THEN Raise("AttributeError")
    ELSE Ok(query_response.items)

\* soup.find(testid="callnum_branch"): the place of the node, or 0.
FindTestId(html, testid) ==
    IF \A i \in 1..Len(html) : html[i].testid # testid THEN 0
    ELSE Min({i \in 1..Len(html) : html[i].testid = testid})

\* node.find('span', class_='value'): the place of the span, or 0.
FindSpan(spans, cls) ==
    IF \A k \in 1..Len(spans) : spans[k].cls # cls THEN 0
    ELSE Min({k \in 1..Len(spans) : spans[k].cls = cls})

\* get_call_number, the node being at i: None has neither find nor text.
CallNumberIn(html, i) ==
    IF i = 0 THEN Raise("AttributeError")
    ELSE IF FindSpan(html[i].spans, "value") = 0 THEN Raise("AttributeError")
    ELSE Ok(html[i].spans[FindSpan(html[i].spans, "value")].text)

\* get_call_number: response.json()['html'] is parsed and searched.
get_call_number(full_record_response) ==
    IF ~full_record_response.json THEN Raise("ValueError")
    ELSE IF ~full_record_response.hasHtml THEN Raise("KeyError")
    ELSE CallNumberIn(full_record_response.html,
                      FindTestId(full_record_response.html, "callnum_branch"))

(***************************************************************************)
(* The inputs of the model                                                 *)
(***************************************************************************)

\* The longest list of wanted books.
MaxBooks == 12

\* The most items in one search response.
MaxFeedLen == 2

Descriptor(isbn, title, author) == [isbn |-> isbn, title |-> title, author |-> author]

CatsCradle == Descriptor("0140285601", "Cat's Cradle", "Kurt Vonnegut Jr.")

MobyDick == Descriptor("", "Moby Dick", "Herman Melville")

CuriousIncident ==
    Descriptor("", "The Curious Incident of the Dog in the Night-Time", "Mark Haddon")

ZenMotorcycle ==
    Descriptor("", "Zen and the Art of Motorcycle Maintenance", "Robert M. Pirsig")

Pool == <<CatsCradle, MobyDick, CuriousIncident, ZenMotorcycle>>

\* The first n books of the pool repeated over and over.
Cyc(n) == [i \in 1..n |-> Pool[((i - 1) % Len(Pool)) + 1]]

\* The shelves a run starts from: mixed ones of up to a window and of more
\* than a window, and ones of long titles only, whose query is as long as
\* the catalog takes or longer.
BookLists ==
    {Cyc(n) : n \in (0..ChunkSize) \cup {MaxBooks}}
        \cup {Rep(CuriousIncident, n) : n \in (ChunkSize - 2)..ChunkSize}

\* The lists bibliocommons_query and grouper are called with directly: the
\* shelves above and lists of short and long clauses in every proportion.
QueryLists ==
    {Cyc(n) : n \in 0..MaxBooks}
        \cup {Rep(CuriousIncident, n) : n \in 1..MaxBooks}
        \cup {Rep(CatsCradle, a) \o Rep(ZenMotorcycle, b) :
                  a \in 0..MaxBooks, b \in 0..MaxBooks}

Branches == {None, "Fremont Branch"}

\* The books single_query is called with directly: with an ISBN, with an
\* empty one and with none, and each with either title and either author.
Descriptors ==
    {Descriptor(isbn, title, author) :
        isbn \in {"0140285601", "", None},
        title \in {"Cat's Cradle", "Moby Dick"},
        author \in {"Kurt Vonnegut Jr.", "Herman Melville"}}

LinkMobyDick == "https://seattle.bibliocommons.com/item/show/2837203030_moby_dick"

LinkNoShow == "https://seattle.bibliocommons.com/search/2837203030_moby_dick"

LinkNoId == "https://seattle.bibliocommons.com/item/show/moby_dick"

\* The links extract_item_id is called with directly: the ones above, and
\* ones with no slug after the id, with leading zeros, with an empty id, with
\* a superscript digit for an id, with a query and a fragment, with a deeper
\* path, with no host, and the empty link.
Links ==
    {LinkMobyDick, LinkNoShow, LinkNoId,
     "https://seattle.bibliocommons.com/item/show/2837203030",
     "https://seattle.bibliocommons.com/item/show/007_goldfinger",
     "https://seattle.bibliocommons.com/item/show/_moby_dick",
     "https://seattle.bibliocommons.com/item/show/²_moby_dick",
     "https://seattle.bibliocommons.com/item/show/2837203030_moby_dick?utm=rss#top",
     "https://seattle.bibliocommons.com/item/show/editions/2837203030_moby_dick",
     "https://seattle.bibliocommons.com/item/show/",
     "item/show/2837203030_moby_dick",
     ""}

Thumbnail ==
    Node("div", "", "jacketCoverDiv",
         "https://secure.syndetics.com/index.aspx?isbn=9780142437247/MC.GIF&client=sfpl")

DescWithCall ==
    <<Thumbnail, Tag("b", "Call #:"), Text(" FIC MELVILLE "),
      Tag("b", "Author:"), Tag("a", "Melville, Herman"),
      Tag("b", "Description:"), Tag("p", "A whaling voyage.")>>

DescNoCall ==
    <<Thumbnail, Tag("b", "Author:"), Tag("a", "Melville, Herman")>>

RssItem(title, link, description, missing) ==
    [title |-> title, link |-> link, description |-> description,
     missing |-> missing]

ItemCall == RssItem("Moby Dick", LinkMobyDick, DescWithCall, {})

ItemFetch == RssItem("Typee &amp; Omoo", LinkMobyDick, DescNoCall, {})

ItemEmptyLink == RssItem("Moby Dick", "", DescNoCall, {})

ItemNoLink == RssItem("Moby Dick", None, DescNoCall, {"link"})

ItemCallNoLink == RssItem("Moby Dick", None, DescWithCall, {"link"})

ItemNoShow == RssItem("Moby Dick", LinkNoShow, DescNoCall, {})

ItemNoId == RssItem("Moby Dick", LinkNoId, DescNoCall, {})

\* A description whose thumbnail holds no img.
DescNoImg ==
    <<Node("div", "", "jacketCoverDiv", None), Tag("b", "Call #:"),
      Text(" FIC MELVILLE ")>>

ItemNoTitle == RssItem(None, LinkMobyDick, DescWithCall, {"title"})

ItemNoDescription == RssItem("Moby Dick", LinkMobyDick, <<>>, {"description"})

ItemNoImg == RssItem("Moby Dick", LinkMobyDick, DescNoImg, {})

RssItems ==
    {ItemCall, ItemFetch, ItemEmptyLink, ItemNoLink, ItemCallNoLink, ItemNoShow,
     ItemNoId, ItemNoTitle, ItemNoDescription, ItemNoImg}

\* What the search endpoint may answer: a channel of some number of items,
\* or a document with no channel.  matching_books is a generator that parses
\* an item when the loop asks for the next book, so the model draws what an
\* item holds, among RssItems, at that point.
SearchResponses ==
    {[channel |-> TRUE, items |-> n] : n \in 0..MaxFeedLen}
    \cup {[channel |-> FALSE, items |-> 0]}

Fragment(testid, spans) == [testid |-> testid, spans |-> spans]

Span(cls, text) == [cls |-> cls, text |-> text]

FullRecord(html) == [json |-> TRUE, hasHtml |-> TRUE, html |-> html]

RecordWithCall ==
    FullRecord(<<Fragment("title", <<Span("value", "Moby Dick")>>),
                 Fragment("callnum_branch", <<Span("label", "Call #"),
                                              Span("value", "FIC MELVILLE")>>)>>)

RecordNoNode == FullRecord(<<Fragment("title", <<Span("value", "Moby Dick")>>)>>)

RecordNoValue ==
    FullRecord(<<Fragment("callnum_branch", <<Span("label", "Call #")>>)>>)

\* What the full record endpoint may answer.
FullRecordResponses == {RecordWithCall, RecordNoNode, RecordNoValue}

(***************************************************************************)
(* BiblioParser.__iter__ as a state machine                                *)
(*                                                                         *)
(* grequests.imap hands the requests it is given, in order, to a pool of    *)
(* two workers and yields each response as it arrives, in any order; a     *)
(* request that fails in transport has no response and, no exception       *)
(* handler being passed, is skipped.                                       *)
(***************************************************************************)

VARIABLES
    books,                 \* self.books
    branch,                \* self.branch
    pc,                    \* where __iter__ stands: start, search, detail, done, raised
    exc,                   \* the exception that ended __iter__, "none" if none
    lookup_requests,       \* catalog_results: the search requests, each with its state
    feeds,                 \* the items read so far of each search response
    cur,                   \* the search response matching_books is reading, 0 if none
    left,                  \* how many of its items are still to be read
    full_record_requests,  \* __iter__: the full record requests, each with its state
    output,                \* the books yielded so far, in order
    warned,                \* the items logged as having no link
    returned,              \* what a function called on its own returned, None if none
    environ,               \* os.environ['GOODREADS_DEV_KEY'], None if not set
    table,                 \* the items of the DynamoDB table shelvedBooks
    now,                   \* time.time(), in seconds
    event,                 \* the event of the latest call of read_shelf.handler
    handler_response,      \* what that call returned, or the exception it raised
    calls,                 \* the cache and ShelfReader calls it made, in order
    replies                \* what each search request is answered with, if settled beforehand

\* The state read_shelf.handler works on.
shelf_vars == <<environ, table, now, event, handler_response, calls>>

vars == <<books, branch, pc, exc, lookup_requests, feeds, cur, left,
          full_record_requests, output, warned, returned, shelf_vars, replies>>

\* No call of read_shelf.handler yet, an empty table.
NoShelfCall ==
    /\ environ = None
    /\ table = {}
    /\ now = 0
    /\ event = <<>>
    /\ handler_response = [statusCode |-> 0, body |-> "", exc |-> "none"]
    /\ calls = <<>>

Init ==
    /\ books \in BookLists
    /\ branch \in Branches
    /\ pc = "start"
    /\ exc = "none"
    /\ lookup_requests = <<>>
    /\ feeds = <<>>
    /\ cur = 0
    /\ left = 0
    /\ full_record_requests = <<>>
    /\ output = <<>>
    /\ warned = <<>>
    /\ returned = None
    /\ replies = <<>>
    /\ NoShelfCall

\* grequests.imap(requests): size, the number of requests in flight at a
\* time, takes its default.
PoolSize == 2

\* imap may send request j: the ones before it have been sent, and a worker
\* of the pool is free.
CanSend(requests, j) ==
    /\ requests[j].status = "built"
    /\ \A i \in 1..(j - 1) : requests[i].status # "built"
    /\ Cardinality({i \in 1..Len(requests) : requests[i].status = "sent"}) < PoolSize

\* catalog_results: the query of each window of grouper(self.books, 10).
Queries(chunks, br) ==
    [k \in 1..Len(chunks) |-> bibliocommons_query(chunks[k], br)]

\* async_book_lookup: the request, not yet sent.
async_book_lookup(query) ==
    [url |-> Root \o "search/rss", query |-> query, status |-> "built"]

\* An exception leaves __iter__: the generator is finished.
RaiseOut(e) ==
    /\ pc' = "raised"
    /\ exc' = e

\* The first next(): catalog_results builds every query and every request
\* before imap sends any; a query over the limit raises out of __iter__.
Start ==
    /\ pc = "start"
    /\ \E queries \in {Queries(grouper(books, ChunkSize), branch)} :
          IF \E k \in 1..Len(queries) : ~queries[k].ok
          THEN /\ RaiseOut("ValueError")
               /\ UNCHANGED <<lookup_requests, feeds>>
          ELSE /\ lookup_requests' =
                    [k \in 1..Len(queries) |-> async_book_lookup(queries[k].val)]
               /\ feeds' = [k \in 1..Len(queries) |-> <<>>]
               /\ pc' = "search"
               /\ UNCHANGED exc
    /\ UNCHANGED <<replies, shelf_vars, returned, books, branch, cur, left, full_record_requests, output, warned>>

\* imap sends a search request.
SendSearch(i) ==
    /\ pc = "search"
    /\ CanSend(lookup_requests, i)
    /\ lookup_requests' = [lookup_requests EXCEPT ![i].status = "sent"]
    /\ UNCHANGED <<replies, shelf_vars, returned, books, branch, pc, exc, feeds, cur, left,
                   full_record_requests, output, warned>>

\* A search request fails in transport: imap yields nothing for it.
FailSearch(i) ==
    /\ pc = "search"
    /\ lookup_requests[i].status = "sent"
    /\ lookup_requests' = [lookup_requests EXCEPT ![i].status = "failed"]
    /\ UNCHANGED <<replies, shelf_vars, returned, books, branch, pc, exc, feeds, cur, left,
                   full_record_requests, output, warned>>

\* imap yields a search response, and matching_books finds its items.
ReceiveSearch(i, response) ==
    /\ pc = "search"
    /\ cur = 0
    /\ lookup_requests[i].status = "sent"
    /\ lookup_requests' = [lookup_requests EXCEPT ![i].status = "received"]
    /\ \E found \in {matching_books(response)} :
          IF ~found.ok
          THEN /\ RaiseOut(found.exc)
               /\ UNCHANGED <<cur, left>>
          ELSE /\ cur' = IF found.val = 0 THEN 0 ELSE i
               /\ left' = found.val
               /\ UNCHANGED <<pc, exc>>
    /\ UNCHANGED <<replies, shelf_vars, returned, books, branch, feeds, full_record_requests, output, warned>>

\* Where an item came from: its search response and its place in it.
Origin == [req |-> cur, item |-> Len(feeds[cur]) + 1]

\* if book.call_number
HasCallNumber(book) == Truthy(book.call_number)

\* elif not book.full_record_link
HasNoLink(book) == ~Truthy(book.full_record_link)

\* A variant for comparison: the branches of the first loop not exclusive, a
\* book with a call number being yielded by the first and again at the end.
FirstLoopBody_fallthrough(book) ==
    IF HasCallNumber(book)
    THEN /\ output' = output \o << [book |-> book, origin |-> Origin, wave |-> 1],
                                   [book |-> book, origin |-> Origin, wave |-> 1] >>
         /\ UNCHANGED <<pc, exc, warned, full_record_requests>>
    ELSE IF HasNoLink(book)
    THEN /\ warned' = Append(warned, Origin)
         /\ UNCHANGED <<pc, exc, output, full_record_requests>>
    ELSE \E request \in {async_record(book)} :
            IF ~request.ok
            THEN /\ RaiseOut(request.exc)
                 /\ UNCHANGED <<output, warned, full_record_requests>>
            ELSE /\ full_record_requests' =
                      Append(full_record_requests,
                             [url |-> request.val.url, book |-> request.val.book,
                              origin |-> Origin, status |-> "built",
                              response |-> None])
                 /\ UNCHANGED <<pc, exc, output, warned>>

\* The body of the first loop of __iter__ for one book of catalog_results.
FirstLoopBody(book) ==
    IF HasCallNumber(book)
    THEN /\ output' = Append(output, [book |-> book, origin |-> Origin, wave |-> 1])
         /\ UNCHANGED <<pc, exc, warned, full_record_requests>>
    ELSE IF HasNoLink(book)
    THEN /\ warned' = Append(warned, Origin)
         /\ UNCHANGED <<pc, exc, output, full_record_requests>>
    ELSE \E request \in {async_record(book)} :
            IF ~request.ok
            THEN /\ RaiseOut(request.exc)
                 /\ UNCHANGED <<output, warned, full_record_requests>>
            ELSE /\ full_record_requests' =
                      Append(full_record_requests,
                             [url |-> request.val.url, book |-> request.val.book,
                              origin |-> Origin, status |-> "built",
                              response |-> None])
                 /\ UNCHANGED <<pc, exc, output, warned>>

\* book_from_rss_item of each item a response may hold, worked out once.
BookOfItem == [rss_item \in RssItems |-> book_from_rss_item(rss_item)]

\* One turn of the first loop of __iter__: matching_books parses the next
\* item, and the book is yielded, or logged, or gets a full record request.
ProcessItem(rss_item) ==
    /\ pc = "search"
    /\ cur # 0
    /\ \E parsed \in {BookOfItem[rss_item]} :
          IF ~parsed.ok
          THEN /\ RaiseOut(parsed.exc)
               /\ UNCHANGED <<output, warned, full_record_requests>>
          ELSE FirstLoopBody(parsed.val)
    /\ feeds' = [feeds EXCEPT ![cur] = Append(@, rss_item)]
    /\ left' = left - 1
    /\ cur' = IF left = 1 THEN 0 ELSE cur
    /\ UNCHANGED <<replies, shelf_vars, returned, books, branch, lookup_requests>>

\* A request is built, then sent; then its response is received or it fails.
Finished(req) == req.status \in {"received", "failed"}

\* A variant for comparison: the first loop left as soon as one response
\* has been read to its end.
SearchDrained_first ==
    /\ cur = 0
    /\ \E i \in 1..Len(lookup_requests) : Finished(lookup_requests[i])

\* The first imap is exhausted: every search request has been answered or
\* has failed, and every response has been read to its end.
SearchDrained ==
    /\ cur = 0
    /\ \A i \in 1..Len(lookup_requests) : Finished(lookup_requests[i])

\* A variant for comparison: the first loop left once the response in hand
\* has been read to its end, whatever requests are still out.
EndSearch_early ==
    /\ pc = "search"
    /\ cur = 0
    /\ \E i \in 1..Len(lookup_requests) : Finished(lookup_requests[i])
    /\ pc' = "detail"
    /\ UNCHANGED <<replies, shelf_vars, returned, books, branch, exc, lookup_requests, feeds, cur, left,
                   full_record_requests, output, warned>>

\* The first loop ends and the second imap begins.
EndSearch ==
    /\ pc = "search"
    /\ SearchDrained
    /\ pc' = "detail"
    /\ UNCHANGED <<replies, shelf_vars, returned, books, branch, exc, lookup_requests, feeds, cur, left,
                   full_record_requests, output, warned>>

\* imap sends a full record request.
SendDetail(j) ==
    /\ pc = "detail"
    /\ CanSend(full_record_requests, j)
    /\ full_record_requests' = [full_record_requests EXCEPT ![j].status = "sent"]
    /\ UNCHANGED <<replies, shelf_vars, returned, books, branch, pc, exc, lookup_requests, feeds, cur, left,
                   output, warned>>

\* A full record request fails in transport: imap yields nothing for it.
FailDetail(j) ==
    /\ pc = "detail"
    /\ full_record_requests[j].status = "sent"
    /\ full_record_requests' = [full_record_requests EXCEPT ![j].status = "failed"]
    /\ UNCHANGED <<replies, shelf_vars, returned, books, branch, pc, exc, lookup_requests, feeds, cur, left,
                   output, warned>>

\* The body of the second loop: book.call_number = get_call_number(response),
\* then yield book.
SecondLoopBody(j, call_number) ==
    IF ~call_number.ok
    THEN /\ RaiseOut(call_number.exc)
         /\ UNCHANGED output
    ELSE \E book \in {SetCallNumber(full_record_requests[j].book, call_number.val)} :
            IF ~book.ok
            THEN /\ RaiseOut(book.exc)
                 /\ UNCHANGED output
            ELSE /\ output' = Append(output,
                                     [book |-> book.val,
                                      origin |-> full_record_requests[j].origin,
                                      wave |-> 2])
                 /\ UNCHANGED <<pc, exc>>

\* One turn of the second loop: imap yields a full record response, with the
\* book its hook attached.
ReceiveDetail(j, response) ==
    /\ pc = "detail"
    /\ full_record_requests[j].status = "sent"
    /\ full_record_requests' =
           [full_record_requests EXCEPT ![j].status = "received",
                                        ![j].response = response]
    /\ SecondLoopBody(j, get_call_number(response))
    /\ UNCHANGED <<replies, shelf_vars, returned, books, branch, lookup_requests, feeds, cur, left, warned>>

\* The second imap is exhausted: __iter__ returns.
Finish ==
    /\ pc = "detail"
    /\ \A j \in 1..Len(full_record_requests) : Finished(full_record_requests[j])
    /\ pc' = "done"
    /\ UNCHANGED <<replies, shelf_vars, returned, books, branch, exc, lookup_requests, feeds, cur, left,
                   full_record_requests, output, warned>>

Next ==
    \/ Start
    \/ \E i \in 1..Len(lookup_requests) : SendSearch(i)
    \/ \E i \in 1..Len(lookup_requests) : FailSearch(i)
    \/ \E i \in 1..Len(lookup_requests), r \in SearchResponses : ReceiveSearch(i, r)
    \/ \E rss_item \in RssItems : ProcessItem(rss_item)
    \/ EndSearch
    \/ \E j \in 1..Len(full_record_requests) : SendDetail(j)
    \/ \E j \in 1..Len(full_record_requests) : FailDetail(j)
    \/ \E j \in 1..Len(full_record_requests), r \in FullRecordResponses :
           ReceiveDetail(j, r)
    \/ Finish

Spec == Init /\ [][Next]_vars

\* The same runs, driven to their end: the consumer keeps calling next(),
\* imap keeps sending the requests a free worker can take, and every
\* request sent is answered or fails, so a step that can be taken is taken.
FairSpec == Spec /\ WF_vars(Next)

(***************************************************************************)
(* lookup.py: the BiblioParser of the script                               *)
(***************************************************************************)

\* matching_books of lookup.py for one item: title, link, call_num, its
\* statements raising in the order they are written.
MatchFrom(title, description, call_num, link) ==
    IF ~title.ok THEN title
    ELSE IF ~description.ok THEN description
    ELSE IF ~call_num.ok THEN call_num
    ELSE IF ~link.ok THEN link
    ELSE Ok([title |-> unescape(title.val), link |-> link.val,
             call_num |-> call_num.val])

LookupMatch(rss_item) ==
    MatchFrom(ElementText(rss_item, "title"), ElementText(rss_item, "description"),
              CallNumberOf(rss_item.description), ElementText(rss_item, "link"))

\* The body of the first loop of __iter__ of lookup.py.
LookupFirstLoopBody(match) ==
    IF Truthy(match.call_num)
    THEN /\ output' = Append(output,
                             [book |-> [title |-> match.title,
                                        call_number |-> match.call_num],
                              origin |-> Origin, wave |-> 1])
         /\ UNCHANGED <<pc, exc, full_record_requests>>
    ELSE \E request \in {RecordRequest(match.title, extract_item_id(match.link))} :
            IF ~request.ok
            THEN /\ RaiseOut(request.exc)
                 /\ UNCHANGED <<output, full_record_requests>>
            ELSE /\ full_record_requests' =
                      Append(full_record_requests,
                             [url |-> request.val.url, book |-> request.val.book,
                              origin |-> Origin, status |-> "built",
                              response |-> None])
                 /\ UNCHANGED <<pc, exc, output>>

\* One turn of the first loop of lookup.py: matching_books reads the next
\* item, and its title is yielded with its call number or gets a full
\* record request.
LookupProcessItem(rss_item) ==
    /\ pc = "search"
    /\ cur # 0
    /\ \E match \in {LookupMatch(rss_item)} :
          IF ~match.ok
          THEN /\ RaiseOut(match.exc)
               /\ UNCHANGED <<output, full_record_requests>>
          ELSE LookupFirstLoopBody(match.val)
    /\ feeds' = [feeds EXCEPT ![cur] = Append(@, rss_item)]
    /\ left' = left - 1
    /\ cur' = IF left = 1 THEN 0 ELSE cur
    /\ UNCHANGED <<replies, shelf_vars, returned, books, branch, lookup_requests, warned>>

\* One turn of the second loop of lookup.py: call_num =
\* self.get_call_number(response), then yield (response._title, call_num).
LookupReceiveDetail(j, response) ==
    /\ pc = "detail"
    /\ full_record_requests[j].status = "sent"
    /\ full_record_requests' =
           [full_record_requests EXCEPT ![j].status = "received",
                                        ![j].response = response]
    /\ \E call_num \in {get_call_number(response)} :
          IF ~call_num.ok
          THEN /\ RaiseOut(call_num.exc)
               /\ UNCHANGED output
          ELSE /\ output' = Append(output,
                                   [book |-> [title |-> full_record_requests[j].book,
                                              call_number |-> call_num.val],
                                    origin |-> full_record_requests[j].origin,
                                    wave |-> 2])
               /\ UNCHANGED <<pc, exc>>
    /\ UNCHANGED <<replies, shelf_vars, returned, books, branch, lookup_requests, feeds,
                   cur, left, warned>>

\* The books the script is run with: one window of them, or two.
LookupBookLists == {Cyc(1), Cyc(MaxBooks)}

\* The items of the script's search responses: with a call number, without
\* one, with a link that shows no item, without a title.
LookupItems == {ItemCall, ItemFetch, ItemNoShow, ItemNoTitle}

\* The full records of the script's second loop.
LookupRecords == {RecordWithCall, RecordNoNode}

InitLookup ==
    /\ books \in LookupBookLists
    /\ branch = "Fremont Branch"
    /\ pc = "start"
    /\ exc = "none"
    /\ lookup_requests = <<>>
    /\ feeds = <<>>
    /\ cur = 0
    /\ left = 0
    /\ full_record_requests = <<>>
    /\ output = <<>>
    /\ warned = <<>>
    /\ returned = None
    /\ replies = <<>>
    /\ NoShelfCall

NextLookup ==
    \/ Start
    \/ \E i \in 1..Len(lookup_requests) : SendSearch(i)
    \/ \E i \in 1..Len(lookup_requests) : FailSearch(i)
    \/ \E i \in 1..Len(lookup_requests), r \in SearchResponses : ReceiveSearch(i, r)
    \/ \E rss_item \in LookupItems : LookupProcessItem(rss_item)
    \/ EndSearch
    \/ \E j \in 1..Len(full_record_requests) : SendDetail(j)
    \/ \E j \in 1..Len(full_record_requests) : FailDetail(j)
    \/ \E j \in 1..Len(full_record_requests), r \in LookupRecords :
           LookupReceiveDetail(j, r)
    \/ Finish

SpecLookup == InitLookup /\ [][NextLookup]_vars

(***************************************************************************)
(* Runs whose responses are settled before the requests are sent           *)
(***************************************************************************)

\* What a search response may hold: nothing; one item or two, with a call
\* number, without one, without a title, with a link that shows no item.
PlannedReplies ==
    {<<>>, <<ItemCall>>, <<ItemFetch>>, <<ItemNoTitle>>, <<ItemCall, ItemFetch>>,
     <<ItemFetch, ItemCall>>, <<ItemCall, ItemNoTitle>>, <<ItemNoShow, ItemCall>>}

\* Two windows of books: two search requests, each with its response.
InitOrder ==
    /\ books = Cyc(MaxBooks)
    /\ branch = "Fremont Branch"
    /\ replies \in [1..2 -> PlannedReplies]
    /\ pc = "start"
    /\ exc = "none"
    /\ lookup_requests = <<>>
    /\ feeds = <<>>
    /\ cur = 0
    /\ left = 0
    /\ full_record_requests = <<>>
    /\ output = <<>>
    /\ warned = <<>>
    /\ returned = None
    /\ NoShelfCall

\* imap yields the response of search request i.
ReceivePlanned(i) ==
    ReceiveSearch(i, [channel |-> TRUE, items |-> Len(replies[i])])

\* matching_books parses the next item of the response in hand.
ProcessPlanned ==
    /\ cur # 0
    /\ ProcessItem(replies[cur][Len(feeds[cur]) + 1])

NextOrder ==
    \/ Start
    \/ \E i \in 1..Len(lookup_requests) : SendSearch(i)
    \/ \E i \in 1..Len(lookup_requests) : ReceivePlanned(i)
    \/ ProcessPlanned
    \/ EndSearch
    \/ \E j \in 1..Len(full_record_requests) : SendDetail(j)
    \/ \E j \in 1..Len(full_record_requests) : ReceiveDetail(j, RecordWithCall)
    \/ Finish

SpecOrder == InitOrder /\ [][NextOrder]_vars

(***************************************************************************)
(* The functions of the module called on their own                         *)
(***************************************************************************)

InitQuery ==
    /\ books \in QueryLists
    /\ branch \in Branches \cup {""}
    /\ pc = "call"
    /\ exc = "none"
    /\ lookup_requests = <<>>
    /\ feeds = <<>>
    /\ cur = 0
    /\ left = 0
    /\ full_record_requests = <<>>
    /\ output = <<>>
    /\ warned = <<>>
    /\ returned = None
    /\ replies = <<>>
    /\ NoShelfCall

\* The call returns value, or raises it.
Return(fn, arg, value) ==
    /\ pc = "call"
    /\ pc' = "returned"
    /\ returned' = [fn |-> fn, arg |-> arg, value |-> value]
    /\ UNCHANGED <<replies, shelf_vars, books, branch, exc, lookup_requests, feeds, cur,
                   left, full_record_requests, output, warned>>

\* QueryBuilder.bibliocommons_query(books, branch)
CallQuery == Return("bibliocommons_query", branch, bibliocommons_query(books, branch))

\* list(grouper(books, chunk_size))
CallGrouper(chunk_size) == Return("grouper", chunk_size, grouper(books, chunk_size))

\* BiblioParser.extract_item_id(rss_link)
CallExtractItemId(rss_link) ==
    Return("extract_item_id", rss_link, extract_item_id(rss_link))

\* BiblioParser.get_call_number(full_record_response)
CallGetCallNumber(full_record_response) ==
    Return("get_call_number", full_record_response,
           get_call_number(full_record_response))

\* QueryBuilder.single_query(book, print_only)
CallSingleQuery(book, print_only) ==
    Return("single_query", [book |-> book, print_only |-> print_only],
           single_query(book, print_only))

\* The covers asked for: the two of the tests (no isbn; an isbn, then other
\* parameters, the last one blank), one without a query, one whose isbn is
\* blank, one whose isbn comes second, one whose isbn names no file, one
\* whose isbn holds two slashes.
CoverUrls ==
    {"https://secure.syndetics.com/index.aspx?fake_url",
     "https://secure.syndetics.com/index.aspx?isbn=9780140449266/SC.GIF&client=sfpl&type=xw12&oclc=",
     "https://sfpl.bibliocommons.com/images/placeholder.png",
     "https://secure.syndetics.com/index.aspx?isbn=&client=sfpl",
     "https://secure.syndetics.com/index.aspx?client=sfpl&isbn=9780142437247/MC.GIF",
     "https://secure.syndetics.com/index.aspx?isbn=9780140449266&client=sfpl",
     "https://secure.syndetics.com/index.aspx?isbn=9780140449266/covers/SC.GIF&client=sfpl"}

\* syndetics.higher_quality_cover(image_url)
CallHigherQualityCover(image_url) ==
    Return("higher_quality_cover", image_url, higher_quality_cover(image_url))

NextQuery ==
    \/ CallQuery
    \/ \E book \in Descriptors, print_only \in BOOLEAN :
          CallSingleQuery(book, print_only)
    \/ \E chunk_size \in 1..ChunkSize : CallGrouper(chunk_size)
    \/ \E rss_link \in Links : CallExtractItemId(rss_link)
    \/ \E response \in FullRecordResponses : CallGetCallNumber(response)
    \/ \E image_url \in CoverUrls : CallHigherQualityCover(image_url)

SpecQuery == InitQuery /\ [][NextQuery]_vars

(***************************************************************************)
(* lambda_functions/read_shelf.py: the handler and its cache               *)
(***************************************************************************)

\* The Goodreads API terms: no information is cached longer than 24 hours.
GOODREADS_CACHE_DURATION == 86400

\* Optional[int]: no timestamp (None), or one.
NoTimestamp == <<>>

Timestamp(ts) == <<ts>>

\* dict.get(k, default)
Get(d, k, default) == IF k \in DOMAIN d THEN d[k] ELSE default

\* s[1:-1] of a str
Inner(s) == SubSeq(s, 2, Len(s) - 1)

\* A JSON string without escapes: "..."
IsQuoted(t) ==
    /\ Len(t) >= 2
    /\ CharAt(t, 1) = "\""
    /\ CharAt(t, Len(t)) = "\""
    /\ FirstOf(Inner(t), {"\"", "\\"}) = 0

\* json.loads of the text of a member's value: a string, true, false or null.
JsonValue(t) ==
    IF t = "null" THEN Ok(None)
    ELSE IF t = "true" THEN Ok(TRUE)
    ELSE IF t = "false" THEN Ok(FALSE)
    ELSE IF IsQuoted(t) THEN Ok(Inner(t))
    ELSE Raise("JSONDecodeError")

\* The name and the value of the member "name": value of an object.
MemberName(m) == Strip(SplitFirst(m, ":"))

MemberValue(m) == JsonValue(Strip(From(m, FirstOf(m, {":"}) + 1)))

IsMember(m) ==
    /\ FirstOf(m, {":"}) > 0
    /\ IsQuoted(MemberName(m))
    /\ MemberValue(m).ok

\* The dict of the members of an object: a name given twice keeps its last
\* value.
DictOf(members) ==
    [k \in {Inner(MemberName(members[i])) : i \in 1..Len(members)} |->
        MemberValue(members[
            Max({i \in 1..Len(members) : Inner(MemberName(members[i])) = k})]).val]

\* What json.loads gives, with its type: None, or a dict.
PyNone == [type |-> "NoneType", items |-> <<>>]

PyDict(items) == [type |-> "dict", items |-> items]

\* json.loads(text) of the texts of the model: null, or an object whose
\* members are strings, true, false or null (no comma, colon or escape within
\* a string); JSONDecodeError for a text that is no JSON.
json_loads(text) ==
    LET t == Strip(text)
    IN  IF t = "null" THEN Ok(PyNone)
        ELSE IF Len(t) >= 2 /\ CharAt(t, 1) = "{" /\ CharAt(t, Len(t)) = "}"
        THEN IF Strip(Inner(t)) = "" THEN Ok(PyDict(<<>>))
             ELSE IF \A i \in 1..Len(Split(Inner(t), ",")) :
                         IsMember(Split(Inner(t), ",")[i])
             THEN Ok(PyDict(DictOf(Split(Inner(t), ","))))
             ELSE Raise("JSONDecodeError")
        ELSE Raise("JSONDecodeError")

\* not body, of what json.loads gave: None and the empty dict are falsy.
Falsy(body) == body.type = "NoneType" \/ DOMAIN body.items = {}

\* ShelfResult(books, retrieved_timestamp)
ShelfResult(bks, retrieved_timestamp) ==
    [books |-> bks, retrieved_timestamp |-> retrieved_timestamp]

\* ShelfResult.is_cached
is_cached(result) == result.retrieved_timestamp # NoTimestamp

\* ShelfResult.from_cached_item: the books of the item, each dict made a Book
\* again, and the timestamp made an int again.
from_cached_item(item) ==
    ShelfResult(item.books, Timestamp(item.retrievedTimestamp))

\* key = f'{user_id}-{shelf}'
CacheKey(user_id, shelf) == user_id \o "-" \o shelf

\* table.get_item(Key={'userAndShelf': key}): 'Item' is in the answer iff
\* the set is not empty.
get_item(tbl, key) == {item \in tbl : item.userAndShelf = key}

\* table.put_item(Item=item): the item replaces the one of the same key.
put_item(tbl, item) ==
    {i \in tbl : i.userAndShelf # item.userAndShelf} \cup {item}

\* The item get_wanted_books writes.
CacheItem(user_id, shelf, now_ts, wanted_books) ==
    [userAndShelf |-> CacheKey(user_id, shelf),
     userId |-> user_id,
     shelf |-> shelf,
     retrievedTimestamp |-> now_ts,
     ttl |-> now_ts + GOODREADS_CACHE_DURATION,
     books |-> wanted_books]

\* goodreads.ShelfReader(user_id, dev_key): __init__ keeps both, whatever
\* they are.
ShelfReader(user_id, dev_key) ==
    Ok([user_id |-> user_id, dev_key |-> dev_key])

\* os.environ['GOODREADS_DEV_KEY']
DevKey(env) == IF env = None THEN Raise("KeyError") ELSE Ok(env)

\* What a call leaves: its result, the table and the calls made.
Outcome(r, tbl, made) ==
    [ok |-> r.ok, val |-> r.val, exc |-> r.exc, table |-> tbl, calls |-> made]

\* get_wanted_books from "If the cache missed" on: the shelf is read through
\* a ShelfReader (wanted is what list(reader.wanted_books(shelf)) gives or
\* raises) and written to the cache.
FetchShelf(tbl, dev_key, now_ts, user_id, shelf, wanted, made) ==
    IF ~dev_key.ok THEN Outcome(dev_key, tbl, made)
    ELSE IF ~ShelfReader(user_id, dev_key.val).ok
    THEN Outcome(ShelfReader(user_id, dev_key.val), tbl, made \o <<"ShelfReader">>)
    ELSE IF ~wanted.ok
    THEN Outcome(wanted, tbl, made \o <<"ShelfReader", "wanted_books">>)
    ELSE Outcome(Ok(ShelfResult(wanted.val, NoTimestamp)),
                 put_item(tbl, CacheItem(user_id, shelf, now_ts, wanted.val)),
                 made \o <<"ShelfReader", "wanted_books", "get_item", "put_item">>)

\* get_wanted_books, were the cache never read: the shelf is read each time.
get_wanted_books_uncached(tbl, env, now_ts, user_id, shelf, skip_cache, wanted) ==
    IF ~Truthy(user_id) THEN Outcome(Raise("AssertionError"), tbl, <<>>)
    ELSE FetchShelf(tbl, DevKey(env), now_ts, user_id, shelf, wanted, <<>>)

\* get_wanted_books, were skip_cache not looked at: the cache is read first.
get_wanted_books_cache_first(tbl, env, now_ts, user_id, shelf, skip_cache, wanted) ==
    IF ~Truthy(user_id) THEN Outcome(Raise("AssertionError"), tbl, <<>>)
    ELSE IF get_item(tbl, CacheKey(user_id, shelf)) # {}
    THEN Outcome(Ok(from_cached_item(
                     CHOOSE item \in get_item(tbl, CacheKey(user_id, shelf)) : TRUE)),
                 tbl, <<"get_item">>)
    ELSE FetchShelf(tbl, DevKey(env), now_ts, user_id, shelf, wanted, <<"get_item">>)

\* get_wanted_books(user_id, shelf, skip_cache) at time now_ts.
get_wanted_books(tbl, env, now_ts, user_id, shelf, skip_cache, wanted) ==
    IF ~Truthy(user_id) THEN Outcome(Raise("AssertionError"), tbl, <<>>)
    ELSE IF skip_cache
    THEN FetchShelf(tbl, DevKey(env), now_ts, user_id, shelf, wanted, <<>>)
    ELSE IF get_item(tbl, CacheKey(user_id, shelf)) # {}
    THEN Outcome(Ok(from_cached_item(
                     CHOOSE item \in get_item(tbl, CacheKey(user_id, shelf)) : TRUE)),
                 tbl, <<"get_item">>)
    ELSE FetchShelf(tbl, DevKey(env), now_ts, user_id, shelf, wanted, <<"get_item">>)

\* error(message)
error(message) == [statusCode |-> 400, body |-> message, exc |-> "none"]

\* The handler raised e: it returned nothing.
Raised(e) == [statusCode |-> 0, body |-> "", exc |-> e]

\* What the handler reports of a book.
Reported(book) ==
    [goodreads_id |-> book.goodreads_id, isbn |-> book.isbn,
     title |-> book.title, author |-> book.author]

\* The handler's 200 response; body is the object json.dumps prints.
Success(result) ==
    [statusCode |-> 200,
     body |-> [isReadFromCache |-> is_cached(result),
               cachedTimestamp |-> result.retrieved_timestamp,
               books |-> [i \in 1..Len(result.books) |-> Reported(result.books[i])]],
     exc |-> "none"]

\* read_request, were the body not checked for being empty.
read_request_unchecked(ev) ==
    LET json_body == Get(ev, "body", "{}")
        refused(resp) == [ok |-> FALSE, response |-> resp, user_id |-> None,
                          shelf |-> None, skip_cache |-> FALSE]
    IN  IF json_body = None THEN refused(error("No data given!"))
        ELSE IF ~json_loads(json_body).ok
        THEN refused(Raised(json_loads(json_body).exc))
        ELSE IF ~Truthy(Get(json_loads(json_body).val.items, "userId", None))
        THEN refused(error("No user id supplied!"))
        ELSE [ok |-> TRUE, response |-> Raised("none"),
              user_id |-> Get(json_loads(json_body).val.items, "userId", None),
              shelf |-> Get(json_loads(json_body).val.items, "shelf", "to-read"),
              skip_cache |-> Get(json_loads(json_body).val.items, "skipCache", FALSE)]

\* The handler up to the call of get_wanted_books: the request it reads from
\* the event, or the response it returns at once.
read_request(ev) ==
    LET json_body == Get(ev, "body", "{}")
        refused(resp) == [ok |-> FALSE, response |-> resp, user_id |-> None,
                          shelf |-> None, skip_cache |-> FALSE]
    IN  IF json_body = None THEN refused(error("No data given!"))
        ELSE IF ~json_loads(json_body).ok
        THEN refused(Raised(json_loads(json_body).exc))
        ELSE IF Falsy(json_loads(json_body).val)
        THEN refused(error("No body given!"))
        ELSE IF ~Truthy(Get(json_loads(json_body).val.items, "userId", None))
        THEN refused(error("No user id supplied!"))
        ELSE [ok |-> TRUE, response |-> Raised("none"),
              user_id |-> Get(json_loads(json_body).val.items, "userId", None),
              shelf |-> Get(json_loads(json_body).val.items, "shelf", "to-read"),
              skip_cache |-> Get(json_loads(json_body).val.items, "skipCache", FALSE)]

\* The handler from the call of get_wanted_books on.
respond(got) ==
    IF got.ok THEN Success(got.val)
    ELSE IF got.exc = "ValueError" THEN error("Something went wrong.")
    ELSE Raised(got.exc)

(***************************************************************************)
(* The requests, the shelves and the steps of read_shelf                   *)
(***************************************************************************)

\* How many times the clock advances.
MaxTicks == 2

\* The clock advances by a little more than half the cache duration: an item
\* is older than its ttl two ticks after it is written.
TickSeconds == GOODREADS_CACHE_DURATION \div 2 + 1

\* bibliophile.goodreads.types.Book, as the handler and its tests use it.
GoodreadsBook(goodreads_id, isbn, title, author, description, image_url) ==
    [goodreads_id |-> goodreads_id, isbn |-> isbn, title |-> title,
     author |-> author, description |-> description, image_url |-> image_url]

CatsCradleOnShelf ==
    GoodreadsBook("135479", "0140285601", "Cat's Cradle", "Kurt Vonnegut Jr.",
                  "and the silver spoon...", "https://i.gr-assets.com/foo.jpg")

DonQuixote ==
    GoodreadsBook("3836", "0142437239", "Don Quixote", "Miguel de Cervantes",
                  "Windmills, Sancho Panza, etc.", "not relevant, so not a real URL")

\* What a shelf may hold when it is read: nothing, or the same two books in
\* either order.
ShelfContents ==
    {<<>>, <<CatsCradleOnShelf, DonQuixote>>, <<DonQuixote, CatsCradleOnShelf>>}

\* What list(reader.wanted_books(shelf)) gives: the books of the shelf, or
\* the exception of a reply that holds no reviews.
WantedBooks ==
    {Ok(shelf_books) : shelf_books \in ShelfContents} \cup {Raise("AttributeError")}

\* "name": value
Member(name, value) == "\"" \o name \o "\": " \o value

Quoted(s) == "\"" \o s \o "\""

\* {members}
JsonObject(members) == "{" \o Join(", ", members) \o "}"

\* Requests the handler takes: the shelf to-read of user 123 (the default
\* shelf), the shelf read of user 123-to, whose key is the same string, and
\* the shelf read of user 123.
Wanted ==
    {<<Member("userId", Quoted("123"))>>,
     <<Member("userId", Quoted("123-to")), Member("shelf", Quoted("read"))>>,
     <<Member("shelf", Quoted("read")), Member("userId", Quoted("123"))>>}

SkipCacheMembers ==
    {<<>>, <<Member("skipCache", "true")>>, <<Member("skipCache", "false")>>}

\* Requests without a user: no userId, null, empty; and no member at all.
Userless ==
    {<<Member("shelf", Quoted("read"))>>,
     <<Member("userId", "null")>>,
     <<Member("userId", Quoted("")), Member("skipCache", "true")>>,
     <<>>}

\* The POST data of the events: JSON objects, null, a text that is no JSON,
\* and None.
Bodies ==
    {JsonObject(w \o k) : w \in Wanted, k \in SkipCacheMembers}
        \cup {JsonObject(u) : u \in Userless}
        \cup {"null", "", None}

\* The events: with a body, and without one.
Events == {[body |-> b] : b \in Bodies} \cup {<<>>}

\* read_request of each event, worked out once.
RequestOf == [ev \in Events |-> read_request(ev)]

\* handler(event, context): the response, the table and the calls it leaves.
handler(tbl, env, now_ts, ev, wanted) ==
    IF ~RequestOf[ev].ok
    THEN [response |-> RequestOf[ev].response, table |-> tbl, calls |-> <<>>]
    ELSE LET got == get_wanted_books(tbl, env, now_ts, RequestOf[ev].user_id,
                                     RequestOf[ev].shelf,
                                     RequestOf[ev].skip_cache, wanted)
         IN  [response |-> respond(got), table |-> got.table, calls |-> got.calls]

\* GOODREADS_DEV_KEY in the environment of the function: not set, empty, set.
DevKeys == {None, "", "s3cr3t"}

InitShelf ==
    /\ environ \in DevKeys
    /\ table = {}
    /\ now = 0
    /\ event = <<>>
    /\ handler_response = [statusCode |-> 0, body |-> "", exc |-> "none"]
    /\ calls = <<>>
    /\ books = <<>>
    /\ branch = None
    /\ pc = "handler"
    /\ exc = "none"
    /\ lookup_requests = <<>>
    /\ feeds = <<>>
    /\ cur = 0
    /\ left = 0
    /\ full_record_requests = <<>>
    /\ output = <<>>
    /\ warned = <<>>
    /\ returned = None
    /\ replies = <<>>

\* One call of the handler, from the event to the response; wanted is what
\* reading the shelf gives, if the call reads it.
Invoke(ev, wanted) ==
    /\ pc = "handler"
    /\ \E done \in {handler(table, environ, now, ev, wanted)} :
        /\ event' = ev
        /\ handler_response' = done.response
        /\ table' = done.table
        /\ calls' = done.calls
    /\ UNCHANGED <<replies, environ, now, books, branch, pc, exc, lookup_requests, feeds,
                   cur, left, full_record_requests, output, warned, returned>>

\* Time passes.
Tick ==
    /\ pc = "handler"
    /\ now + TickSeconds <= MaxTicks * TickSeconds
    /\ now' = now + TickSeconds
    /\ UNCHANGED <<replies, environ, table, event, handler_response, calls,
                   books, branch, pc, exc, lookup_requests, feeds, cur, left,
                   full_record_requests, output, warned, returned>>

\* The keys the requests of the model read and write.
CacheKeys ==
    {CacheKey(RequestOf[ev].user_id, RequestOf[ev].shelf) :
        ev \in {e \in Events : RequestOf[e].ok}}

\* DynamoDB deletes the item of a key once its ttl is older than the current
\* time, at a time of its own choosing.
Expire(key) ==
    /\ pc = "handler"
    /\ \E item \in get_item(table, key) :
        /\ item.ttl < now
        /\ table' = table \ {item}
    /\ UNCHANGED <<replies, environ, now, event, handler_response, calls,
                   books, branch, pc, exc, lookup_requests, feeds, cur, left,
                   full_record_requests, output, warned, returned>>

NextShelf ==
    \/ \E ev \in Events, wanted \in WantedBooks : Invoke(ev, wanted)
    \/ Tick
    \/ \E key \in CacheKeys : Expire(key)

SpecShelf == InitShelf /\ [][NextShelf]_vars

(***************************************************************************)
(* json.loads of nested values, as search_catalog needs it                 *)
(***************************************************************************)

\* The values json.loads gives besides None and a dict, with their types.
PyStr(s) == [type |-> "str", items |-> s]

PyBool(b) == [type |-> "bool", items |-> b]

PyList(xs) == [type |-> "list", items |-> xs]

\* bool(value)
PyTruthy(value) ==
    CASE value.type = "NoneType" -> FALSE
      [] value.type = "bool" -> value.items
      [] value.type = "str" -> value.items # ""
      [] value.type = "list" -> Len(value.items) > 0
      [] value.type = "dict" -> DOMAIN value.items # {}

\* A value read from the text, and the place after it; no value can be read.
Parsed(value, at) == [ok |-> TRUE, val |-> value, at |-> at]

NotJson == [ok |-> FALSE, val |-> PyNone, at |-> 1]

\* The first place from i on that holds no whitespace (past the end if none).
SkipWhitespace(s, i) ==
    Min({j \in i..Len(s) + 1 : j > Len(s) \/ CharAt(s, j) \notin Whitespace})

\* The first place from i on that holds a quote or a backslash.
Closing(s, i) ==
    Min({j \in i..Len(s) + 1 : j > Len(s) \/ CharAt(s, j) \in {"\"", "\\"}})

\* A string without escapes, opening at i and closing at end.
scanstring(s, i, end) ==
    IF end > Len(s) \/ CharAt(s, end) = "\\" THEN NotJson
    ELSE Parsed(PyStr(SubSeq(s, i + 1, end - 1)), end + 1)

\* d[k] = v
Put(d, k, v) == [n \in DOMAIN d \cup {k} |-> IF n = k THEN v ELSE d[n]]

RECURSIVE scan_once(_, _), JSONArray(_, _, _), JSONObject(_, _, _)

\* After an element of an array: a comma and the next element, or the end.
ArrayRest(s, elem, at, xs) ==
    IF ~elem.ok \/ at > Len(s) THEN NotJson
    ELSE IF CharAt(s, at) = "," THEN JSONArray(s, at + 1, Append(xs, elem.val))
    ELSE IF CharAt(s, at) = "]" THEN Parsed(PyList(Append(xs, elem.val)), at + 1)
    ELSE NotJson

\* The elements of an array from i on, xs being those read so far.
JSONArray(s, i, xs) ==
    LET elem == scan_once(s, i)
    IN  ArrayRest(s, elem, SkipWhitespace(s, elem.at), xs)

\* After the value of a member: a comma and the next member, or the end.
ObjectRest(s, name, value, at, d) ==
    IF ~value.ok \/ at > Len(s) THEN NotJson
    ELSE IF CharAt(s, at) = ","
    THEN JSONObject(s, SkipWhitespace(s, at + 1), Put(d, name.val.items, value.val))
    ELSE IF CharAt(s, at) = "}"
    THEN Parsed(PyDict(Put(d, name.val.items, value.val)), at + 1)
    ELSE NotJson

\* After the name of a member: a colon and the value.
MemberRest(s, name, colon, d) ==
    IF ~name.ok \/ colon > Len(s) THEN NotJson
    ELSE IF CharAt(s, colon) # ":" THEN NotJson
    ELSE LET value == scan_once(s, colon + 1)
         IN  ObjectRest(s, name, value, SkipWhitespace(s, value.at), d)

\* The members of an object from i on, d being those read so far.
JSONObject(s, i, d) ==
    IF i > Len(s) THEN NotJson
    ELSE IF CharAt(s, i) # "\"" THEN NotJson
    ELSE LET name == scanstring(s, i, Closing(s, i + 1))
         IN  MemberRest(s, name, SkipWhitespace(s, name.at), d)

\* The value that starts at i, next being the place of what follows its
\* first character.
ScanAt(s, i, next) ==
    IF i > Len(s) THEN NotJson
    ELSE IF CharAt(s, i) = "\"" THEN scanstring(s, i, Closing(s, i + 1))
    ELSE IF CharAt(s, i) = "{"
    THEN IF next <= Len(s) /\ CharAt(s, next) = "}"
         THEN Parsed(PyDict(<<>>), next + 1)
         ELSE JSONObject(s, next, <<>>)
    ELSE IF CharAt(s, i) = "["
    THEN IF next <= Len(s) /\ CharAt(s, next) = "]"
         THEN Parsed(PyList(<<>>), next + 1)
         ELSE JSONArray(s, next, <<>>)
    ELSE IF StartsWith(From(s, i), "null") THEN Parsed(PyNone, i + 4)
    ELSE IF StartsWith(From(s, i), "true") THEN Parsed(PyBool(TRUE), i + 4)
    ELSE IF StartsWith(From(s, i), "false") THEN Parsed(PyBool(FALSE), i + 5)
    ELSE NotJson

scan_once(s, i) ==
    ScanAt(s, SkipWhitespace(s, i), SkipWhitespace(s, SkipWhitespace(s, i) + 1))

\* The value read must be all of the text.
Decoded(s, obj) ==
    IF obj.ok /\ SkipWhitespace(s, obj.at) > Len(s) THEN Ok(obj.val)
    ELSE [ok |-> FALSE, val |-> PyNone, exc |-> "JSONDecodeError"]

\* json.loads(s) of the texts of the model: null, true, false, strings
\* without escapes, arrays and objects of these; JSONDecodeError for a text
\* that is none of them.
decode(s) == Decoded(s, scan_once(s, 1))

(***************************************************************************)
(* search_catalog: the handler that searches the catalog                   *)
(***************************************************************************)

\* BookDescription._fields
BookDescriptionFields == <<"isbn", "title", "author">>

\* BookDescription(**book_dict): a TypeError unless the keywords are exactly
\* the fields.
BookDescription(book_dict) ==
    IF DOMAIN book_dict = {BookDescriptionFields[i] : i \in 1..Len(BookDescriptionFields)}
    THEN Ok([isbn |-> book_dict.isbn.items, title |-> book_dict.title.items,
             author |-> book_dict.author.items])
    ELSE Raise("TypeError")

\* str_args
str_args == <<"biblio_subdomain", "branch">>

\* missing_values, were a name only looked up and its value not looked at.
MissingValues_absent(body) ==
    SelectSeq(str_args, LAMBDA name : name \notin DOMAIN body.items)

\* missing_values = [name for name in str_args if not body.get(name)]
MissingValues(body) ==
    SelectSeq(str_args, LAMBDA name : ~PyTruthy(Get(body.items, name, PyNone)))

\* dict_books and isinstance(dict_books, list) and all(isinstance(dict_book,
\* dict) for dict_book in dict_books)
StructuredList(dict_books) ==
    /\ PyTruthy(dict_books)
    /\ dict_books.type = "list"
    /\ \A i \in 1..Len(dict_books.items) : dict_books.items[i].type = "dict"

\* [BookDescription(**book_dict) for book_dict in dict_books]
DescriptionsOf(dict_books) ==
    IF \A i \in 1..Len(dict_books.items) :
           BookDescription(dict_books.items[i].items).ok
    THEN Ok([i \in 1..Len(dict_books.items) |->
                BookDescription(dict_books.items[i].items).val])
    ELSE Raise("TypeError")

\* The handler has what it searches with.
Searching(body, descriptions) ==
    [ok |-> TRUE, response |-> Raised("none"),
     biblio_subdomain |-> body.items.biblio_subdomain,
     branch |-> body.items.branch,
     isolanguage |-> Get(body.items, "isolanguage", PyStr("eng")),
     descriptions |-> descriptions]

\* The handler returns, or raises, before it searches.
NotSearching(resp) ==
    [ok |-> FALSE, response |-> resp, biblio_subdomain |-> PyNone,
     branch |-> PyNone, isolanguage |-> PyNone, descriptions |-> <<>>]

\* The handler from the books on.
SearchBooks(body, dict_books) ==
    IF ~StructuredList(dict_books)
    THEN NotSearching(error("Specify books in a structured list!"))
    ELSE IF ~DescriptionsOf(dict_books).ok
    THEN NotSearching(error("Books must include fields ('"
                            \o Join("', '", BookDescriptionFields) \o "')"))
    ELSE Searching(body, DescriptionsOf(dict_books).val)

\* The handler from the decoded body on; body.get of what is no dict raises.
SearchBody(body) ==
    IF ~PyTruthy(body) THEN NotSearching(error("No body given!"))
    ELSE IF body.type # "dict" THEN NotSearching(Raised("AttributeError"))
    ELSE IF MissingValues(body) # <<>>
    THEN NotSearching(error("Missing value for " \o Join(", ", MissingValues(body))))
    ELSE SearchBooks(body, Get(body.items, "books", PyList(<<>>)))

\* [elements]
JsonArray(elements) == "[" \o Join(", ", elements) \o "]"

CatsCradleObject ==
    JsonObject(<<Member("isbn", Quoted("0140285601")),
                 Member("title", Quoted("Cat's Cradle")),
                 Member("author", Quoted("Kurt Vonnegut Jr."))>>)

\* biblio_subdomain in the body: absent, empty, given.
SubdomainMembers ==
    {<<>>, <<Member("biblio_subdomain", Quoted(""))>>,
     <<Member("biblio_subdomain", Quoted("sfpl"))>>}

\* branch in the body: absent, null, given.
BranchMembers ==
    {<<>>, <<Member("branch", "null")>>, <<Member("branch", Quoted("MAIN"))>>}

\* isolanguage in the body: absent, given.
LanguageMembers == {<<>>, <<Member("isolanguage", Quoted("fre"))>>}

\* books in the body: absent; an empty list; a string; an object; a list of
\* a string; lists of objects with a wrong field, a missing field, a field
\* too many, null fields; a list with a string after an object; a list with
\* an object short of a field after a whole one; lists of whole objects.
BooksMembers ==
    {<<>>,
     <<Member("books", "[]")>>,
     <<Member("books", Quoted("Harry Potter"))>>,
     <<Member("books", CatsCradleObject)>>,
     <<Member("books", JsonArray(<<Quoted("Harry Potter")>>))>>,
     <<Member("books", JsonArray(<<JsonObject(<<Member("name", Quoted("Harry Potter"))>>)>>))>>,
     <<Member("books", JsonArray(<<JsonObject(<<Member("title", Quoted("Harry Potter"))>>)>>))>>,
     <<Member("books", JsonArray(<<JsonObject(<<Member("isbn", "null"),
                                                Member("title", Quoted("Harry Potter")),
                                                Member("author", Quoted("J. K. Rowling")),
                                                Member("year", Quoted("1997"))>>)>>))>>,
     <<Member("books", JsonArray(<<JsonObject(<<Member("isbn", "null"),
                                                Member("title", "null"),
                                                Member("author", "null")>>)>>))>>,
     <<Member("books", JsonArray(<<CatsCradleObject, Quoted("Harry Potter")>>))>>,
     <<Member("books", JsonArray(<<CatsCradleObject,
                                   JsonObject(<<Member("title", Quoted("Harry Potter"))>>)>>))>>,
     <<Member("books", JsonArray(<<CatsCradleObject>>))>>,
     <<Member("books", JsonArray(<<CatsCradleObject, CatsCradleObject>>))>>}

\* The POST data of the events: JSON objects; null, an empty list, a list, a
\* text that is no JSON; and None.
SearchBodies ==
    {JsonObject(s \o b \o k \o l) :
        s \in SubdomainMembers, b \in BranchMembers, k \in BooksMembers,
        l \in LanguageMembers}
        \cup {"null", "[]", JsonArray(<<CatsCradleObject>>), "", None}

\* The events: with a body, and without one.
SearchEvents == {[body |-> b] : b \in SearchBodies} \cup {<<>>}

\* json.loads of each body, worked out once.
Decode == [json_body \in SearchBodies \ {None} |-> decode(json_body)]

\* The handler up to the making of the BiblioParser: what it searches with,
\* or the response it returns at once.
search_request(ev) ==
    IF Get(ev, "body", "{}") = None THEN NotSearching(error("No data given!"))
    ELSE IF ~Decode[Get(ev, "body", "{}")].ok
    THEN NotSearching(Raised(Decode[Get(ev, "body", "{}")].exc))
    ELSE SearchBody(Decode[Get(ev, "body", "{}")].val)

\* search_request of each event, worked out once.
SearchOf == [ev \in SearchEvents |-> search_request(ev)]

\* What biblio_parser.all_matching_books(descriptions) gives when it is
\* iterated: books of the catalog, or the exception of a reply without a
\* channel.
Found ==
    {Ok(<<>>),
     Ok(<<Book("Cat's Cradle", "Kurt Vonnegut Jr.", "and the silver spoon...",
               "F VONNEGUT", None, "https://sfpl.bibliocommons.com/item/show/1268424093")>>),
     Raise("UnstableAPIError")}

\* The handler from the making of the BiblioParser on: the 200 response, its
\* body being the object json.dumps prints.
search_respond(found) ==
    IF found.ok
    THEN [statusCode |-> 200, body |-> [books |-> found.val], exc |-> "none"]
    ELSE Raised(found.exc)

\* handler(event, context) of search_catalog: the response and the calls made
\* of parse.BiblioParser.
search_catalog_handler(ev, found) ==
    IF ~SearchOf[ev].ok THEN [response |-> SearchOf[ev].response, calls |-> <<>>]
    ELSE [response |-> search_respond(found),
          calls |-> <<"BiblioParser", "all_matching_books">>]

InitSearch ==
    /\ NoShelfCall
    /\ books = <<>>
    /\ branch = None
    /\ pc = "search_catalog"
    /\ exc = "none"
    /\ lookup_requests = <<>>
    /\ feeds = <<>>
    /\ cur = 0
    /\ left = 0
    /\ full_record_requests = <<>>
    /\ output = <<>>
    /\ warned = <<>>
    /\ returned = None
    /\ replies = <<>>

\* One call of the handler, from the event to the response; found is what the
\* search gives, if the call searches.
Search(ev, found) ==
    /\ pc = "search_catalog"
    /\ \E done \in {search_catalog_handler(ev, found)} :
        /\ event' = ev
        /\ handler_response' = done.response
        /\ calls' = done.calls
    /\ UNCHANGED <<replies, environ, table, now, books, branch, pc, exc, lookup_requests,
                   feeds, cur, left, full_record_requests, output, warned,
                   returned>>

NextSearch == \E ev \in SearchEvents, found \in Found : Search(ev, found)

SpecSearch == InitSearch /\ [][NextSearch]_vars

(***************************************************************************)
(* The vocabulary of the properties                                        *)
(***************************************************************************)

\* The items read so far, each named by its search response and its place.
ItemsRead ==
    {o \in [req : 1..Len(feeds), item : 1..MaxFeedLen] :
        o.item <= Len(feeds[o.req])}

ItemAt(o) == feeds[o.req][o.item]

\* The places of the output holding the book of item o.
Emitted(o) == {k \in 1..Len(output) : output[k].origin = o}

\* The full record requests made for item o.
Requested(o) ==
    {j \in 1..Len(full_record_requests) : full_record_requests[j].origin = o}

\* The item's description has a "Call #:" label followed by a call number.
CarriesCallNumber(rss_item) ==
    /\ CallNumberOf(rss_item.description).ok
    /\ Truthy(CallNumberOf(rss_item.description).val)

\* The item has a description, with no "Call #:" label in it.
LacksCallNumber(rss_item) ==
    /\ "description" \notin rss_item.missing
    /\ FindLabel(rss_item.description, "b", "Call #:") = 0

\* The item has no link element, or an empty one.
LinkAbsent(rss_item) == "link" \in rss_item.missing \/ rss_item.link = ""

\* The item's link is one of a book summary, with a numeric item id.
LinkValid(rss_item) == ~LinkAbsent(rss_item) /\ extract_item_id(rss_item.link).ok

\* The book of a full record request with the call number of its response.
Resolved(request) ==
    [request.book EXCEPT !.call_number = get_call_number(request.response).val]

\* The full record requests whose response has been handled.
Handled ==
    {j \in 1..Len(full_record_requests) :
        full_record_requests[j].status = "received"}

(***************************************************************************)
(* C1: for every item of a search response that lacks a call number but    *)
(* has a valid link to its summary, __iter__ makes exactly one full record *)
(* request, and once the response of that request has been handled the     *)
(* book is in the output once, with the call number of the response and    *)
(* its other fields as the item gave them.                                 *)
(*                                                                         *)
(* Refuted: Book is a namedtuple, so book.call_number = ... in the second  *)
(* loop raises AttributeError and nothing is yielded.                      *)
(***************************************************************************)
C1_DetailFetchResolves ==
    /\ \A o \in ItemsRead :
          LacksCallNumber(ItemAt(o)) /\ LinkValid(ItemAt(o))
              => Cardinality(Requested(o)) = 1
    /\ \A j \in Handled :
          get_call_number(full_record_requests[j].response).ok
              => \E k \in 1..Len(output) :
                    /\ Emitted(full_record_requests[j].origin) = {k}
                    /\ output[k].book = Resolved(full_record_requests[j])

(***************************************************************************)
(* C2: an item whose link gives no numeric item id, and a full record      *)
(* response without the call number node, do not end the run: __iter__     *)
(* does not raise, and when it returns the item's book is in the output,   *)
(* without a call number.                                                  *)
(*                                                                         *)
(* Refuted: nothing in __iter__ catches the UnstableAPIError of            *)
(* async_record or the AttributeError of get_call_number.                  *)
(***************************************************************************)
C2_ItemFailureIsScoped ==
    /\ \A o \in ItemsRead :
          LacksCallNumber(ItemAt(o)) /\ ~LinkAbsent(ItemAt(o)) /\ ~LinkValid(ItemAt(o))
              => /\ pc # "raised"
                 /\ pc = "done" =>
                       \E k \in Emitted(o) : ~Truthy(output[k].book.call_number)
    /\ \A j \in Handled :
          ~get_call_number(full_record_requests[j].response).ok
              => /\ pc # "raised"
                 /\ pc = "done" =>
                       \E k \in Emitted(full_record_requests[j].origin) :
                          ~Truthy(output[k].book.call_number)

(***************************************************************************)
(* C3: an item with neither a call number nor a link (no link element, or  *)
(* an empty one) is left out of the output and gets no full record         *)
(* request, and __iter__ does not raise on it.                             *)
(*                                                                         *)
(* Refuted: with no link element rss_item.link is None, and                *)
(* rss_item.link.text raises AttributeError out of __iter__.               *)
(***************************************************************************)
C3_NoLinkItemIsSkipped ==
    [][\A rss_item \in RssItems :
          /\ ProcessItem(rss_item)
          /\ LacksCallNumber(rss_item)
          /\ LinkAbsent(rss_item)
          => /\ pc' = pc
             /\ output' = output
             /\ full_record_requests' = full_record_requests]_vars

(***************************************************************************)
(* C4: an item whose description has a "Call #:" label followed by a call  *)
(* number is yielded, with that call number, when the first loop reads it, *)
(* and no full record request is made for it.                              *)
(*                                                                         *)
(* Refuted through C3 and C13: such an item with no link element, or no    *)
(* title element, makes book_from_rss_item raise, and nothing is yielded   *)
(* for it.                                                                 *)
(***************************************************************************)
C4_CallNumberItemIsYielded ==
    [][\A rss_item \in RssItems :
          /\ ProcessItem(rss_item)
          /\ CarriesCallNumber(rss_item)
          => /\ Len(output') = Len(output) + 1
             /\ output'[Len(output')].book.call_number =
                    CallNumberOf(rss_item.description).val
             /\ full_record_requests' = full_record_requests]_vars

(***************************************************************************)
(* C5: no full record request is sent before every search request has its *)
(* response or has failed, and every response has been read to its end,    *)
(* in whatever order the search responses arrive.                          *)
(***************************************************************************)
C5_WavesAreSequential ==
    \A j \in 1..Len(full_record_requests) :
        full_record_requests[j].status # "built"
            => /\ cur = 0
               /\ \A i \in 1..Len(lookup_requests) : Finished(lookup_requests[i])

\* A full record request is in flight in a run whose second search response
\* was read before its first one.
C5_Witness ==
    /\ \E j \in 1..Len(full_record_requests) :
          full_record_requests[j].status = "sent"
    /\ \E j1, j2 \in 1..Len(full_record_requests) :
          /\ j1 < j2
          /\ full_record_requests[j1].origin.req > full_record_requests[j2].origin.req

(***************************************************************************)
(* C6: when a full record request fails in transport, the book it was made *)
(* for is still yielded, without a call number: it is in the output when   *)
(* __iter__ returns.                                                       *)
(*                                                                         *)
(* Refuted: imap yields nothing for a request that failed, so the second   *)
(* loop never sees its book.                                               *)
(***************************************************************************)
C6_TransportFailureIsScoped ==
    \A j \in 1..Len(full_record_requests) :
        full_record_requests[j].status = "failed" /\ pc = "done"
            => \E k \in Emitted(full_record_requests[j].origin) :
                  ~Truthy(output[k].book.call_number)

(***************************************************************************)
(* C7, as stated: the output never holds more books than the list of       *)
(* wanted books.                                                           *)
(*                                                                         *)
(* Refuted: the first loop yields every item of every search response that *)
(* has a call number, and a response may hold several items for one wanted *)
(* book.                                                                   *)
(***************************************************************************)
C7_AtMostOnePerDescriptor == Len(output) <= Len(books)

(***************************************************************************)
(* C7, amended: every book of the output is the book of exactly one item   *)
(* read from a search response, with the title and the link of that item,  *)
(* and no item is yielded twice; so the output never holds more books than *)
(* items have been read.                                                   *)
(***************************************************************************)
C7_AtMostOnePerItem ==
    /\ \A k \in 1..Len(output) :
          /\ output[k].origin.req \in 1..Len(feeds)
          /\ output[k].origin.item \in 1..Len(feeds[output[k].origin.req])
          /\ Emitted(output[k].origin) = {k}
          /\ output[k].book.title = unescape(ItemAt(output[k].origin).title)
          /\ output[k].book.full_record_link = ItemAt(output[k].origin).link
    /\ Len(output) <= Cardinality(ItemsRead)

\* __iter__ has returned more books than were wanted.
C7_Witness == pc = "done" /\ Len(output) > Len(books)

C9_WindowQueriesFit ==
    pc # "start"
        => /\ \A k \in 1..Len(grouper(books, ChunkSize)) :
                 Len(RawQuery(grouper(books, ChunkSize)[k], branch)) <= MaxQueryLen
           /\ ~(pc = "raised" /\ exc = "ValueError")

(***************************************************************************)
(* C10: the windows of grouper(books, 10) are consecutive parts of the     *)
(* list of wanted books: none is empty, all but the last have 10 books,    *)
(* together in order they are the list; and once catalog_results has       *)
(* started there is exactly one search request per window, made with the   *)
(* query of that window.                                                   *)
(*                                                                         *)
(* Refuted through C9: when the query of a window is too long,             *)
(* catalog_results raises before any request is made.                      *)
(***************************************************************************)
C10_OneRequestPerWindow ==
    \E chunks \in {grouper(books, ChunkSize)} :
        /\ \A k \in 1..Len(chunks) : Len(chunks[k]) \in 1..ChunkSize
        /\ \A k \in 1..(Len(chunks) - 1) : Len(chunks[k]) = ChunkSize
        /\ \A n \in 1..Len(books) :
              books[n] = chunks[((n - 1) \div ChunkSize) + 1][((n - 1) % ChunkSize) + 1]
        /\ Len(books) <= ChunkSize * Len(chunks)
        /\ pc # "start" =>
              /\ Len(lookup_requests) = Len(chunks)
              /\ \A k \in 1..Len(chunks) :
                    lookup_requests[k].query = RawQuery(chunks[k], branch)

\* The call in hand is one of fn.
Returned(fn) == pc = "returned" /\ returned.fn = fn

\* The part of the last segment of the link's path that precedes its first '_'.
LeadingSlugSegment(rss_link) == SplitFirst(SplitLast(urlsplit(rss_link).path, "/"), "_")

(***************************************************************************)
(* C11: extract_item_id returns the integer N when the path of the link    *)
(* starts with /item/show/ and its last segment is N, purely numeric,      *)
(* before the first '_' (2837203030 for .../item/show/2837203030_moby_dick)*)
(* and raises UnstableAPIError for every other link: one whose path does   *)
(* not start with /item/show/, one whose leading segment is not numeric or *)
(* is empty.                                                               *)
(*                                                                         *)
(* Refuted: str.isdigit() holds for digit characters int() does not take   *)
(* (superscript digits), and for such an id int(item_id) raises ValueError.*)
(***************************************************************************)
C11_ItemIdOrUnstableAPIError ==
    Returned("extract_item_id")
        => /\ returned.arg = LinkMobyDick => returned.value = Ok("2837203030")
           /\ IF /\ StartsWith(urlsplit(returned.arg).path, "/item/show/")
                 /\ IsDecimal(LeadingSlugSegment(returned.arg))
              THEN returned.value = Ok(IntOf(LeadingSlugSegment(returned.arg)))
              ELSE returned.value = Raise("UnstableAPIError")

\* The fragment has the node with testid "callnum_branch", and the node a
\* span of class "value".
HasCallNumberNode(html) ==
    \E i \in 1..Len(html) :
        /\ html[i].testid = "callnum_branch"
        /\ \E k \in 1..Len(html[i].spans) : html[i].spans[k].cls = "value"

(***************************************************************************)
(* C12: get_call_number raises UnstableAPIError, and nothing else, when    *)
(* the fragment has no node with testid "callnum_branch" or the node has   *)
(* no span of class "value".                                               *)
(*                                                                         *)
(* Refuted: find returns None for what is absent, and the next attribute   *)
(* access on None raises AttributeError.                                   *)
(***************************************************************************)
C12_MissingNodeIsUnstableAPIError ==
    Returned("get_call_number") /\ ~HasCallNumberNode(returned.arg.html)
        => returned.value = Raise("UnstableAPIError")

\* The item lacks an element the parser expects: its title, its link, its
\* description, or the img of its thumbnail.
LacksElement(rss_item) ==
    \/ rss_item.missing # {}
    \/ \E i \in 1..Len(rss_item.description) :
          /\ rss_item.description[i].name = "div"
          /\ rss_item.description[i].cls = "jacketCoverDiv"
          /\ rss_item.description[i].img = None

(***************************************************************************)
(* C13: an item of a search response that lacks an expected element (its   *)
(* title, its link, its description, the img of its thumbnail) does not    *)
(* end the run: the first loop goes on to the items that remain.           *)
(*                                                                         *)
(* Refuted: book_from_rss_item reads rss_item.description.text,            *)
(* thumbnail.find('img').attrs, rss_item.link.text and rss_item.title.text *)
(* with no test for None, and the AttributeError leaves __iter__.          *)
(***************************************************************************)
C13_MalformedItemDoesNotAbort ==
    [][\A rss_item \in RssItems :
          ProcessItem(rss_item) /\ LacksElement(rss_item) => pc' = pc]_vars

(***************************************************************************)
(* C14: when a search response has no channel element, __iter__ raises as  *)
(* soon as the response is taken (AttributeError, from matching_books):    *)
(* nothing is yielded for that response, and the run is over, with no      *)
(* further book yielded and no normal return.                              *)
(***************************************************************************)
C14_NoChannelFailsTheRun ==
    [][/\ \A i \in 1..Len(lookup_requests), response \in SearchResponses :
             ReceiveSearch(i, response) /\ ~response.channel
                 => /\ pc' = "raised"
                    /\ exc' = "AttributeError"
                    /\ output' = output
       /\ pc = "raised" => pc' = "raised" /\ output' = output]_vars

\* The run has ended on a response with no channel, after the books of
\* another response were yielded: every item read was a well-formed one.
C14_Witness ==
    /\ pc = "raised"
    /\ exc = "AttributeError"
    /\ output # <<>>
    /\ \E i \in 1..Len(lookup_requests) :
          lookup_requests[i].status = "received" /\ feeds[i] = <<>>
    /\ \A i \in 1..Len(feeds) : \A n \in 1..Len(feeds[i]) : feeds[i][n] = ItemCall

(***************************************************************************)
(* C15: for a book with a non-empty ISBN single_query returns exactly      *)
(* identifier:(<isbn>), with no parentheses around it, whatever the        *)
(* author, the title and print_only are; for a book with an empty ISBN, or *)
(* none, it returns contributor:(<author>) AND title:(<title>) in          *)
(* parentheses, with AND formatcode:(BK) after the title exactly when      *)
(* print_only is true.                                                     *)
(***************************************************************************)
C15_ClauseByIsbn ==
    Returned("single_query")
        => \E book \in {returned.arg.book} :
              IF book.isbn \notin {"", None}
              THEN returned.value = "identifier:(" \o book.isbn \o ")"
              ELSE returned.value =
                      "(contributor:(" \o book.author \o ") AND title:("
                          \o book.title \o ")"
                          \o (IF returned.arg.print_only
                              THEN " AND formatcode:(BK)" ELSE "")
                          \o ")"

\* single_query has returned for a book without ISBN, print_only being false.
C15_Witness ==
    /\ Returned("single_query")
    /\ returned.arg.book.isbn = ""
    /\ ~returned.arg.print_only

\* sub occurs in s.
Contains(s, sub) ==
    \E i \in 1..(Len(s) - Len(sub) + 1) : SubSeq(s, i, i + Len(sub) - 1) = sub

\* The single_query of each book, in the order of the list, with OR between.
RECURSIVE OrOfEach(_)
OrOfEach(bs) ==
    IF bs = <<>> THEN ""
    ELSE single_query(Head(bs), TRUE)
         \o (IF Len(bs) > 1 THEN " OR " \o OrOfEach(Tail(bs)) ELSE "")

(***************************************************************************)
(* C16: the query bibliocommons_query returns is the single_query of each  *)
(* book in the order of the list with OR between; with a branch that is    *)
(* None or empty that is all of it, and available: occurs nowhere in it;   *)
(* with a non-empty branch the ORs are in parentheses and followed by      *)
(* available:"<branch>", the branch as given between the quotes.           *)
(***************************************************************************)
C16_BranchClause ==
    Returned("bibliocommons_query") /\ returned.value.ok
        => IF branch \in {"", None}
           THEN /\ returned.value.val = OrOfEach(books)
                /\ ~Contains(returned.value.val, "available:")
           ELSE returned.value.val =
                   "(" \o OrOfEach(books) \o ") available:\"" \o branch \o "\""

\* A query of several books has been returned for the empty branch.
C16_Witness ==
    /\ Returned("bibliocommons_query")
    /\ returned.value.ok
    /\ branch = ""
    /\ Len(books) > 1

(***************************************************************************)
(* read_shelf: the vocabulary of C17..C20                                  *)
(***************************************************************************)

\* The request the latest call of the handler read from its event.
Request == RequestOf[event]

\* The calls of a call that found no item in the cache and read the shelf.
MissCalls == <<"get_item", "ShelfReader", "wanted_books", "get_item", "put_item">>

\* The calls of a call that read the shelf without reading the cache first.
BypassCalls == <<"ShelfReader", "wanted_books", "get_item", "put_item">>

\* The books a 200 response reports for a list of books.
ReportedBooks(bks) == [i \in 1..Len(bks) |-> Reported(bks[i])]

\* ev asks for a shelf without skipCache.
AsksCached(ev) == RequestOf[ev].ok /\ ~RequestOf[ev].skip_cache

\* ev asks for a shelf with skipCache.
AsksFresh(ev) == RequestOf[ev].ok /\ RequestOf[ev].skip_cache

\* The response is the error of this message.
IsError(resp, message) == resp.statusCode = 400 /\ resp.body = message

\* Two responses are the same: both the same return, or the same exception.
SameResponse(a, b) ==
    /\ a.statusCode = b.statusCode
    /\ a.exc = b.exc
    /\ a.statusCode # 0 => a.body = b.body

\* The key of the request of ev.
KeyOf(ev) == CacheKey(RequestOf[ev].user_id, RequestOf[ev].shelf)

\* The latest call was for the (userId, shelf) of ev, missed the cache and
\* returned 200.
LatestMissedFor(ev) ==
    /\ AsksCached(event)
    /\ Request.user_id = RequestOf[ev].user_id
    /\ Request.shelf = RequestOf[ev].shelf
    /\ calls = MissCalls
    /\ handler_response.statusCode = 200

\* In the properties of a step, ev is the event of the call the step makes:
\* Invoke(ev, wanted) leaves it in event.

\* The call now made is answered from the cache with the books bks: status
\* 200, no ShelfReader constructed, no shelf read.
AnsweredFromCache(bks) ==
    /\ handler_response'.statusCode = 200
    /\ handler_response'.body.books = bks
    /\ "ShelfReader" \notin {calls'[i] : i \in 1..Len(calls')}
    /\ "wanted_books" \notin {calls'[i] : i \in 1..Len(calls')}

(***************************************************************************)
(* C17, as claimed: once a request for (userId, shelf) has missed the      *)
(* cache and returned 200, the request for the same (userId, shelf)        *)
(* without skipCache that comes next, however much later, returns 200 with *)
(* the same books in the same order, constructs no ShelfReader and reads   *)
(* no shelf (the developer key being set). Refuted: the item is deleted    *)
(* once its ttl has passed, and the next request reads the shelf again.    *)
(***************************************************************************)
C17_LaterRequestIsAnsweredFromCache ==
    [][\A ev \in {event'}, wanted \in WantedBooks :
          /\ Truthy(environ)
          /\ AsksCached(ev)
          /\ LatestMissedFor(ev)
          /\ Invoke(ev, wanted)
          => AnsweredFromCache(handler_response.body.books)]_vars

(***************************************************************************)
(* C17, amended: a request for (userId, shelf) without skipCache is        *)
(* answered from the cache whenever the table holds an item under its key: *)
(* it returns 200 with the books of that item in their order, reads the    *)
(* cache once, constructs no ShelfReader, reads no shelf and leaves the    *)
(* table as it is; when the latest call was a request for the same         *)
(* (userId, shelf) that missed the cache and returned 200, these are the   *)
(* books that call returned.                                               *)
(***************************************************************************)
C17_ItemInCacheIsAnswered ==
    [][\A ev \in {event'}, wanted \in WantedBooks :
          AsksCached(ev) /\ get_item(table, KeyOf(ev)) # {} /\ Invoke(ev, wanted)
              => /\ \A item \in get_item(table, KeyOf(ev)) :
                        /\ AnsweredFromCache(ReportedBooks(item.books))
                        /\ handler_response'.body.isReadFromCache
                        /\ handler_response'.body.cachedTimestamp
                               = Timestamp(item.retrievedTimestamp)
                 /\ calls' = <<"get_item">>
                 /\ table' = table
                 /\ LatestMissedFor(ev)
                        => AnsweredFromCache(handler_response.body.books)]_vars

\* A request has been answered from the cache, with the books an earlier
\* request read from the shelf.
C17_Witness ==
    /\ AsksCached(event)
    /\ calls = <<"get_item">>
    /\ handler_response.statusCode = 200
    /\ handler_response.body.isReadFromCache
    /\ handler_response.body.books = ReportedBooks(<<DonQuixote, CatsCradleOnShelf>>)

(***************************************************************************)
(* C18: a request with skipCache true is never answered from the cache,    *)
(* whether or not the table holds an item under its key: the cache is not  *)
(* read before the shelf, the response is the one an empty table would     *)
(* give, and when it is 200 a ShelfReader was constructed, the shelf was   *)
(* read, the response reports the books just read and the item under the   *)
(* key holds them.                                                         *)
(***************************************************************************)
C18_SkipCacheReadsAfresh ==
    [][\A ev \in {event'}, wanted \in WantedBooks :
          AsksFresh(ev) /\ Invoke(ev, wanted)
              => /\ SameResponse(handler_response',
                                 handler({}, environ, now, ev, wanted).response)
                 /\ calls' = handler({}, environ, now, ev, wanted).calls
                 /\ calls' = <<>> \/ calls'[1] = "ShelfReader"
                 /\ handler_response'.statusCode = 200
                        => /\ calls' = BypassCalls
                           /\ wanted.ok
                           /\ ~handler_response'.body.isReadFromCache
                           /\ handler_response'.body.books = ReportedBooks(wanted.val)
                           /\ \E item \in get_item(table', KeyOf(ev)) :
                                  /\ item.books = wanted.val
                                  /\ item.retrievedTimestamp = now
                           /\ Cardinality(get_item(table', KeyOf(ev))) = 1]_vars

\* A request with skipCache has read the shelf and written its books under
\* its key, in a table that holds an item of an earlier call.
C18_Witness ==
    /\ AsksFresh(event)
    /\ calls = BypassCalls
    /\ handler_response.statusCode = 200
    /\ now > 0
    /\ \E item \in get_item(table, KeyOf(event)) :
           /\ item.books = <<CatsCradleOnShelf, DonQuixote>>
           /\ item.retrievedTimestamp = now
    /\ \E other \in table : other.retrievedTimestamp < now

(***************************************************************************)
(* C19, as claimed: with an empty GOODREADS_DEV_KEY, constructing a        *)
(* ShelfReader raises ValueError, so a request that has to read the shelf  *)
(* is answered 400 "Something went wrong." and the table is left as it     *)
(* was. Refuted: ShelfReader.__init__ keeps the key without looking at it. *)
(***************************************************************************)
C19_EmptyDevKeyIsRefused ==
    [][\A ev \in {event'}, wanted \in WantedBooks :
          /\ environ = ""
          /\ RequestOf[ev].ok
          /\ RequestOf[ev].skip_cache \/ get_item(table, KeyOf(ev)) = {}
          /\ Invoke(ev, wanted)
          => /\ ShelfReader(RequestOf[ev].user_id, environ) = Raise("ValueError")
             /\ IsError(handler_response', "Something went wrong.")
             /\ table' = table]_vars

\* The requests without a user id: the member is missing, null or empty.
UserlessBodies == {JsonObject(u) : u \in Userless \ {<<>>}}

\* The call now made is refused with message: status 400, and neither the
\* cache nor the shelf is touched.
Refused(message) ==
    /\ IsError(handler_response', message)
    /\ calls' = <<>>
    /\ table' = table

(***************************************************************************)
(* C20: the handler refuses an invalid request before any side effect: a   *)
(* null body gives 400 "No data given!", an empty JSON object gives 400    *)
(* "No body given!", a missing, null or empty userId gives 400 "No user id *)
(* supplied!", and in each case the cache is neither read nor written and  *)
(* the shelf is not read.                                                  *)
(***************************************************************************)
C20_InvalidRequestIsRefused ==
    [][\A ev \in {event'} \ {<<>>}, wanted \in WantedBooks :
          Invoke(ev, wanted)
              => /\ ev.body = None => Refused("No data given!")
                 /\ ev.body = "{}" => Refused("No body given!")
                 /\ ev.body \in UserlessBodies
                        => Refused("No user id supplied!")]_vars

\* A request without a user id has been refused while the cache held an item.
C20_Witness ==
    /\ event \in Events \ {<<>>}
    /\ event.body \in UserlessBodies
    /\ IsError(handler_response, "No user id supplied!")
    /\ calls = <<>>
    /\ table # {}

(***************************************************************************)
(* The vocabulary of the properties of search_catalog                      *)
(***************************************************************************)

\* The POST data of an event: the body, "{}" when the event has none.
PostData(ev) == IF "body" \in DOMAIN ev THEN ev.body ELSE "{}"

\* The POST data is a JSON object; its members.
SendsObject(ev) ==
    /\ PostData(ev) # None
    /\ Decode[PostData(ev)].ok
    /\ Decode[PostData(ev)].val.type = "dict"

Sent(ev) == Decode[PostData(ev)].val.items

\* The object has no member of this name, or an empty one.
Lacks(ev, name) == name \notin DOMAIN Sent(ev) \/ ~PyTruthy(Sent(ev)[name])

\* The message that names exactly the missing ones of the two names.
NamesMissing(ev) ==
    "Missing value for "
        \o (IF Lacks(ev, "biblio_subdomain") THEN "biblio_subdomain" ELSE "")
        \o (IF Lacks(ev, "biblio_subdomain") /\ Lacks(ev, "branch") THEN ", " ELSE "")
        \o (IF Lacks(ev, "branch") THEN "branch" ELSE "")

\* books is a non-empty list of objects.
ListsObjects(ev) ==
    /\ "books" \in DOMAIN Sent(ev)
    /\ Sent(ev).books.type = "list"
    /\ Sent(ev).books.items # <<>>
    /\ \A i \in 1..Len(Sent(ev).books.items) : Sent(ev).books.items[i].type = "dict"

\* Every book has exactly the keys isbn, title and author.
ListsDescriptions(ev) ==
    \A i \in 1..Len(Sent(ev).books.items) :
        DOMAIN Sent(ev).books.items[i].items = {"isbn", "title", "author"}

\* The message of the first check that fails, "" when none does.
FirstFailing(ev) ==
    IF PostData(ev) = None THEN "No data given!"
    ELSE IF DOMAIN Sent(ev) = {} THEN "No body given!"
    ELSE IF Lacks(ev, "biblio_subdomain") \/ Lacks(ev, "branch") THEN NamesMissing(ev)
    ELSE IF ~ListsObjects(ev) THEN "Specify books in a structured list!"
    ELSE IF ~ListsDescriptions(ev)
    THEN "Books must include fields ('isbn', 'title', 'author')"
    ELSE ""

(***************************************************************************)
(* C21: the search_catalog handler validates in a fixed order, and the     *)
(* first check that fails decides the response, which has status 400 and   *)
(* is given before any BiblioParser is made or any search is run: a null   *)
(* body, then an empty body, then a missing or empty biblio_subdomain or   *)
(* branch (the message names exactly the missing ones), then books that    *)
(* are not a non-empty list of objects, then a book whose keys are not     *)
(* exactly isbn, title and author.                                         *)
(***************************************************************************)
C21_FirstFailingCheckDecides ==
    [][\A ev \in {event'}, found \in Found :
          /\ Search(ev, found)
          /\ PostData(ev) = None \/ SendsObject(ev)
          /\ FirstFailing(ev) # ""
          => /\ IsError(handler_response', FirstFailing(ev))
             /\ calls' = <<>>]_vars

\* A request with both names and a list of two books, the second short of
\* two fields, has been refused for its fields without a search.
C21_Witness ==
    /\ pc = "search_catalog"
    /\ SendsObject(event)
    /\ ~Lacks(event, "biblio_subdomain")
    /\ ~Lacks(event, "branch")
    /\ ListsObjects(event)
    /\ Len(Sent(event).books.items) = 2
    /\ ~ListsDescriptions(event)
    /\ IsError(handler_response, "Books must include fields ('isbn', 'title', 'author')")
    /\ calls = <<>>

\* The values of the parameter isbn in the query of the url, in parse_qs's
\* reading of it; none when the query has no such parameter.
IsbnValues(image_url) ==
    {parse_qs(urlsplit(image_url).query)[i].values :
        i \in {k \in 1..Len(parse_qs(urlsplit(image_url).query)) :
                  parse_qs(urlsplit(image_url).query)[k].name = "isbn"}}

\* The url has the shape the function recognizes: a parameter isbn whose
\* value is <isbn>/<filename>.
Recognized(image_url) ==
    \E isbn_values \in IsbnValues(image_url) :
        Len(Split(isbn_values[1], "/")) = 2

(***************************************************************************)
(* C22: higher_quality_cover is total and tolerant: for a cover URL whose  *)
(* shape it does not recognize (no isbn query parameter, or an isbn value  *)
(* that is not <isbn>/<filename>) it returns the URL unchanged and never   *)
(* raises; for a recognized URL it returns a URL whose isbn parameter is   *)
(* <isbn>/LC.jpg and whose other query parameters are those of the input.  *)
(*                                                                         *)
(* Refuted: an isbn value without a slash, or with two, does not unpack    *)
(* into isbn, filename, and the function raises ValueError.                *)
(***************************************************************************)
C22_CoverIsUpgradedOrUnchanged ==
    Returned("higher_quality_cover")
        => IF Recognized(returned.arg)
           THEN /\ returned.value.ok
                /\ \A i \in 1..Len(parse_qs(urlsplit(returned.arg).query)) :
                       LET before == parse_qs(urlsplit(returned.arg).query)[i]
                           after == parse_qs(urlsplit(returned.value.val).query)[i]
                       IN  /\ after.name = before.name
                           /\ after.values =
                                  IF before.name = "isbn"
                                  THEN <<Split(before.values[1], "/")[1] \o "/LC.jpg">>
                                  ELSE before.values
           ELSE returned.value = Ok(returned.arg)

\* The book at place k of the output is one resolved from the search feed:
\* its item carries a call number.  It is one resolved by a detail fetch: a
\* full record request was made for its item.
DirectlyResolved(k) == CarriesCallNumber(ItemAt(output[k].origin))

DetailResolved(k) == Requested(output[k].origin) # {}

(***************************************************************************)
(* C23: in every run, every record resolved from the search feeds (its     *)
(* call number found when the item was parsed) is emitted before any       *)
(* record resolved by a detail fetch, and no detail-resolved record is in  *)
(* the output while a search request is unanswered or a search response    *)
(* is not read to its end.                                                 *)
(***************************************************************************)
C23_DirectBeforeDetail ==
    /\ \A k1 \in 1..Len(output) : \A k2 \in 1..Len(output) :
          DirectlyResolved(k1) /\ DetailResolved(k2) => k1 < k2
    /\ (\E k \in 1..Len(output) : DetailResolved(k))
          => /\ cur = 0
             /\ \A i \in 1..Len(lookup_requests) :
                   lookup_requests[i].status \in {"received", "failed"}

\* The run is over with a record of the second search response resolved
\* from the feed and, after it, a record of the first one resolved by a
\* detail fetch.
C23_Witness ==
    /\ pc = "done"
    /\ \E k1 \in 1..Len(output) : \E k2 \in 1..Len(output) :
          /\ k1 < k2
          /\ DirectlyResolved(k1)
          /\ output[k1].origin.req = 2
          /\ DetailResolved(k2)
          /\ output[k2].origin.req = 1
          /\ output[k2].book.call_number = "FIC MELVILLE"

\* The call now made is served from the cache.
ServedFromCache ==
    /\ handler_response'.statusCode = 200
    /\ handler_response'.body.isReadFromCache

(***************************************************************************)
(* C24: shelf results are cached for at most 24 hours: every item of the   *)
(* cache is written with ttl equal to its retrievedTimestamp plus 86400    *)
(* seconds, and a request served from the cache never returns an item      *)
(* whose retrievedTimestamp is more than 86400 seconds before the time of  *)
(* the request.                                                            *)
(*                                                                         *)
(* Refuted: the handler returns whatever item get_item finds and looks at  *)
(* neither its ttl nor its retrievedTimestamp; an item whose ttl has       *)
(* passed is served for as long as the table has not deleted it.           *)
(***************************************************************************)
C24_CachedAtMostADay ==
    [][\A ev \in {event'}, wanted \in WantedBooks :
          Invoke(ev, wanted)
              => /\ \A item \in table' :
                       item.ttl = item.retrievedTimestamp + 86400
                 /\ ServedFromCache
                       => now - handler_response'.body.cachedTimestamp[1] <= 86400]_vars

\* The events that ask for a shelf.
Asking == {ev \in Events : RequestOf[ev].ok}

(***************************************************************************)
(* C27: the cache never serves one reader's shelf to a request for another *)
(* (userId, shelf) pair: two requests with different pairs use different   *)
(* cache keys, and a request served from the cache is served the item that *)
(* was written for exactly its userId and its shelf.                       *)
(*                                                                         *)
(* Refuted: the key is userId and shelf joined by '-', and both may hold   *)
(* a '-': user 123-to with shelf read and user 123 with shelf to-read share*)
(* the key 123-to-read.                                                    *)
(***************************************************************************)
C27_CacheHitIsOwnShelf ==
    [][\A ev \in {event'}, wanted \in WantedBooks :
          Invoke(ev, wanted) /\ ServedFromCache
              => /\ \A other \in Asking :
                       KeyOf(other) = KeyOf(ev)
                           => /\ RequestOf[other].user_id = RequestOf[ev].user_id
                              /\ RequestOf[other].shelf = RequestOf[ev].shelf
                 /\ \A item \in get_item(table, KeyOf(ev)) :
                       /\ item.userId = RequestOf[ev].user_id
                       /\ item.shelf = RequestOf[ev].shelf]_vars

\* The places of the warnings logged for item o.
Dropped(o) == {k \in 1..Len(warned) : warned[k] = o}

\* The places of the output holding the book of item o, yielded by the
\* first loop, by the second.
EmittedInWave(o, wave) == {k \in Emitted(o) : output[k].wave = wave}

\* The items read that book_from_rss_item made a book of.
ItemsParsed == {o \in ItemsRead : book_from_rss_item(ItemAt(o)).ok}

(***************************************************************************)
(* C25: each item parsed from a search feed has exactly one outcome: it is *)
(* emitted in the first wave, or dropped for lack of a link, or scheduled  *)
(* for exactly one detail request; it is emitted at most once, in the      *)
(* second wave only if it was scheduled, and never both emitted in the     *)
(* first wave and scheduled for a detail fetch.                            *)
(*                                                                         *)
(* Refuted: an item without a call number whose link names no item is      *)
(* parsed, but async_record raises for it (C2): it is neither emitted nor  *)
(* dropped nor scheduled.                                                  *)
(***************************************************************************)
C25_ExactlyOneOutcome ==
    \A o \in ItemsParsed :
        /\ Cardinality(EmittedInWave(o, 1)) + Cardinality(Dropped(o))
               + Cardinality(Requested(o)) = 1
        /\ Cardinality(Emitted(o)) <= 1
        /\ EmittedInWave(o, 2) # {} => Requested(o) # {}
        /\ ~(EmittedInWave(o, 1) # {} /\ Requested(o) # {})

(***************************************************************************)
(* The vocabulary of the properties of runs with settled responses         *)
(***************************************************************************)

\* The items of the replies, each named by its request and its place.
ItemsPlanned ==
    {o \in [req : 1..Len(replies), item : 1..MaxFeedLen] :
        o.item <= Len(replies[o.req])}

ItemPlanned(o) == replies[o.req][o.item]

\* Item p comes before item o when the responses arrive in the order of
\* their requests.
Before(p, o) == p.req < o.req \/ (p.req = o.req /\ p.item < o.item)

\* Reading the item ends the run: no book can be made of it, or no full
\* record request can be made for its book.
Aborts(rss_item) ==
    \/ ~book_from_rss_item(rss_item).ok
    \/ /\ ~HasCallNumber(book_from_rss_item(rss_item).val)
       /\ ~HasNoLink(book_from_rss_item(rss_item).val)
       /\ ~async_record(book_from_rss_item(rss_item).val).ok

\* The items the run reads through when the responses arrive in the order
\* of their requests: those that no item ending the run comes before.
ReadInOrder ==
    {o \in ItemsPlanned :
        /\ ~Aborts(ItemPlanned(o))
        /\ \A p \in ItemsPlanned : Before(p, o) => ~Aborts(ItemPlanned(p))}

\* The books that run yields, and the full record requests it makes.
YieldedInOrder ==
    {o \in ReadInOrder : HasCallNumber(book_from_rss_item(ItemPlanned(o)).val)}

RequestedInOrder ==
    {o \in ReadInOrder :
        /\ ~HasCallNumber(book_from_rss_item(ItemPlanned(o)).val)
        /\ ~HasNoLink(book_from_rss_item(ItemPlanned(o)).val)}

\* The run is over.
Ended == pc \in {"done", "raised"}

(***************************************************************************)
(* C26: the result of a run does not depend on the order in which the      *)
(* responses arrive: with the same books and the same contents of the      *)
(* responses, a run that has ended has yielded the same multiset of        *)
(* records and made the same set of detail requests as the run in which    *)
(* the responses arrive in the order of their requests.                    *)
(*                                                                         *)
(* Refuted: an item of which no book can be made ends the run when it is   *)
(* read (C13, C2), and the books yielded before that are those of the      *)
(* responses that happened to arrive earlier.                              *)
(***************************************************************************)
C26_ResultIsOrderIndependent ==
    Ended =>
        /\ \A b \in {output[k].book : k \in 1..Len(output)}
                    \cup {book_from_rss_item(ItemPlanned(o)).val : o \in YieldedInOrder} :
              Cardinality({k \in 1..Len(output) : output[k].book = b})
                  = Cardinality({o \in YieldedInOrder :
                                    book_from_rss_item(ItemPlanned(o)).val = b})
        /\ {full_record_requests[j].url : j \in 1..Len(full_record_requests)}
              = {async_record(book_from_rss_item(ItemPlanned(o)).val).val.url :
                    o \in RequestedInOrder}

\* Item o has reached a terminal state: its book was yielded by the first
\* loop (Resolved) or by the second (DetailResolved), or it was dropped with
\* a warning, or its full record request failed (Unresolved).
Terminal(o) ==
    \/ Emitted(o) # {}
    \/ Dropped(o) # {}
    \/ \E j \in Requested(o) : full_record_requests[j].status = "failed"

\* Every item a book was made of has reached a terminal state.
AllTerminal == \A o \in ItemsParsed : Terminal(o)

\* The list of books is empty.
NoBooks == books = <<>>

\* The run has returned without a request and without a record.
EndedIdle ==
    /\ pc = "done"
    /\ lookup_requests = <<>>
    /\ full_record_requests = <<>>
    /\ output = <<>>

(***************************************************************************)
(* C28: when every request sent is eventually answered or fails, the       *)
(* iteration over a finite list of books ends, and by then every item a    *)
(* book was made of is in a terminal state (yielded by the first loop,     *)
(* yielded by the second, or unresolved); over an empty list it ends       *)
(* having built no request and yielded no record.                          *)
(*                                                                         *)
(* Refuted in its second part: the run does end, but an exception ends it  *)
(* (C1, C2, C13) while items wait for their full record.                   *)
(***************************************************************************)
C28_EndsWithEveryItemTerminal ==
    /\ <>(Ended /\ AllTerminal)
    /\ NoBooks ~> EndedIdle

=============================================================================
